---------------------------- MODULE Spec2Model ----------------------------
(***************************************************************************)
(* The durable-workflow backend of llmstxt_architect:                      *)
(*   temporal/workflows.py   CrawlAndSummarizeWorkflow, BatchProcessWorkflow*)
(*   temporal/activities.py  discover_urls, load_batch, summarize_document, *)
(*                           save_checkpoint, generate_output_file          *)
(* The state is the workflow input, the files of the project directory     *)
(* (manifest, per-document records, checkpoint, artifact), the locals of   *)
(* the parent and of the batch child workflow, and history variables that  *)
(* record what happened (the h_ variables).                                *)
(***************************************************************************)
EXTENDS Integers, Sequences, FiniteSets, TLC

(***************************************************************************)
(* Bounds of the model.  BATCH_SIZE is 10 in workflows.py:32 and the       *)
(* safety-valve threshold is 500 in workflows.py:262; the model keeps the  *)
(* code's arithmetic and scales the two numbers so that manifests of a few *)
(* documents cross both.                                                   *)
(***************************************************************************)
BATCH_SIZE == 2
SAFETY_VALVE_DOCS == 4
MaxDocs == 5
MaxConcurrent == 2
MaxReruns == 1
MaxRestartCount == 1

(***************************************************************************)
(* URLs.  A URL is the sequence of the characters that follow              *)
(* "https://x/"; characters carry their code point, which is what Python   *)
(* compares when it sorts strings.                                         *)
(***************************************************************************)
Code(c) ==
    CASE c = "/" -> 47
      [] c = "-" -> 45
      [] c = ".txt" -> 46
      [] c = "_" -> 95
      [] c = "a" -> 97
      [] c = "b" -> 98
      [] c = "c" -> 99
      [] c = "d" -> 100
      [] c = "e" -> 101
      [] c = "f" -> 102
      [] OTHER -> 0

RECURSIVE StrLess(_, _)
\* Python's str < str: lexicographic by code point, a proper prefix first.
StrLess(s, t) ==
    IF t = <<>> THEN FALSE
    ELSE IF s = <<>> THEN TRUE
    ELSE IF Code(Head(s)) # Code(Head(t)) THEN Code(Head(s)) < Code(Head(t))
    ELSE StrLess(Tail(s), Tail(t))

RECURSIVE Rstrip(_)
\* str.rstrip("/"): every trailing slash is removed.
Rstrip(u) ==
    IF u # <<>> /\ u[Len(u)] = "/" THEN Rstrip(SubSeq(u, 1, Len(u) - 1)) ELSE u

\* str.replace("/", "_")
ReplaceSlash(u) == [i \in 1..Len(u) |-> IF u[i] = "/" THEN "_" ELSE u[i]]

\* activities.py:295-299: netloc + path with "/" replaced, ".txt" appended.
\* (no URL of the model ends in ".txt", so the suffix is always added)
Filename(u) == ReplaceSlash(u) \o <<".txt">>

\* The order in which the documents of the site are discovered: not the
\* sorted order, and one URL is written with a trailing slash.  The second
\* site is the listing of an existing llms.txt that names one page twice,
\* with and without the trailing slash.
ManifestOrders ==
    { << <<"b">>, <<"a", "/">>, <<"d">>, <<"c">>, <<"e">>, <<"f">>, <<"a", "_", "b">> >>,
      << <<"a", "/">>, <<"a">>, <<"a", "-", "b">> >> }

Min(a, b) == IF a < b THEN a ELSE b

Range(s) == {s[i] : i \in 1..Len(s)}


(***************************************************************************)
(* Texts.  A per-document record, a line of the artifact and a summary     *)
(* string are all pieces of text; a piece of text is the record            *)
(*   [fmt, url, summary, keywords]                                         *)
(* fmt "txt"     "[title](url): summary\n\n"   (activities.py:334)         *)
(* fmt "txtline" the same text stripped, plus "\n" (activities.py:463)     *)
(* fmt "jsonl"   the JSON object {url, content, summary, keywords}         *)
(* fmt "str"     a bare summary string                                     *)
(* fmt "line"    a line of the prior artifact; url <<>> when it has none   *)
(* fmt "none"    Python's None                                             *)
(***************************************************************************)
Text(fmt, url, summary, keywords) ==
    [fmt |-> fmt, url |-> url, summary |-> summary, keywords |-> keywords]

NoText == Text("none", <<>>, "", <<>>)

RECURSIVE JoinLines(_, _)
\* sep.join(lines)
JoinLines(lines, sep) ==
    IF lines = <<>> THEN ""
    ELSE IF Len(lines) = 1 THEN lines[1]
    ELSE lines[1] \o sep \o JoinLines(Tail(lines), sep)

\* An answer of the model whose content has the given lines: text is the
\* content (for a JSON object, its summary member).
Response(kind, lines, keywords) ==
    [kind |-> kind, text |-> JoinLines(lines, "\n"), lines |-> lines,
     keywords |-> keywords]

\* What the language model can answer: an error, a text that is not JSON,
\* of one line or of two, a JSON object {summary, keywords}, with a summary
\* or with an empty one, or a JSON value that is not an object (the number 7).
LlmResponses ==
    { Response("error",     <<>>,               <<>>),
      Response("notjson",   <<"raw">>,          <<>>),
      Response("notjson",   <<"two", "lines">>, <<>>),
      Response("object",    <<"sum">>,          <<"k">>),
      Response("object",    <<"">>,             <<>>),
      Response("jsonvalue", <<"7">>,            <<>>) }

\* The answers the runs of the model draw: the call fails, or the model
\* answers as the prompt asks (one line of plain text for the txt prompt, a
\* JSON object with a summary for the prompt of build_jsonl_prompt,
\* activities.py:271-275).
Answers(fmt) ==
    {r \in LlmResponses :
        \/ r.kind = "error"
        \/ /\ r.kind = (IF fmt = "jsonl" THEN "object" ELSE "notjson")
           /\ Len(r.lines) = 1
           /\ r.text # ""}

\* len() of a summary text: the raw JSON of an object is longer than the
\* summary it carries.
TextLen(t) == CASE t = "raw" -> 3 [] t = "sum" -> 5 [] t = "old" -> 4 [] OTHER -> Len(t)

\* summary_response.content, as the summary text the txt format writes:
\* the response itself, JSON or not (activities.py:287, 333).
ResponseText(resp) == resp.text

\* summary_text.replace("\n\n", " ").replace("\n", " ").strip()
\* (activities.py:311, 333): the lines of the content joined by spaces.
CleanSummary(resp) == JoinLines(resp.lines, " ")

\* json.loads(summary_text) succeeds (activities.py:306)
JsonLoadsOk(resp) == resp.kind \in {"object", "jsonvalue"}

\* parsed_json.get raises AttributeError (activities.py:307): the parsed
\* value is not a dict.
GetRaises(resp) == JsonLoadsOk(resp) /\ resp.kind # "object"

\* len(content) of a piece of text read from a file
ContentLen(c) == Len(c.url) + TextLen(c.summary) + Len(c.keywords)

\* url_pattern.search (activities.py:435): the first "[..](http..)" of the text.
\* A JSON record holds no such link.
UrlPatternMatches(c) == c.fmt \in {"txt", "txtline", "line"} /\ c.url # <<>>

UrlPatternGroup2(c) == c.url

\* summary.strip() + "\n" (activities.py:443, 457, 463)
StripNewline(c) == IF c.fmt = "txt" THEN [c EXCEPT !.fmt = "txtline"] ELSE c

\* SummarizeDocOutput (activities.py:78-89)
SummarizeDocOutput(url, summary, filename, skipped, error) ==
    [url |-> url, summary |-> summary, filename |-> filename,
     skipped |-> skipped, error |-> error]

NoOutput == SummarizeDocOutput(<<>>, NoText, <<>>, FALSE, "")

\* Python truthiness of result.summary (None and "" are falsy)
TruthyText(c) == c.fmt # "none" /\ ~(c.fmt = "str" /\ c.summary = "")

\* Python truthiness of a string such as result.filename or result.error
TruthyStr(x) == Len(x) > 0

(***************************************************************************)
(* State                                                                   *)
(***************************************************************************)
VARIABLES
    site,            \* the documents load_urls finds, in discovery order
    input,           \* CrawlAndSummarizeInput of the running execution
    manifest_file,   \* .staging/manifest.json: the list of document URLs
    log_file,        \* summaries/summarized_urls.json: [exists, complete, map]
    files,           \* summaries/<filename>: the per-document records
    output_file,     \* the artifact: [exists, lines]
    pc,              \* where the parent / child workflow stands
    total_docs,      \* parent local
    batch_start,     \* parent loop variable
    batch_end,       \* parent local
    batch_data,      \* LoadBatchOutput.doc_urls of the current batch
    all_summaries,   \* parent local
    tasks,           \* child: state of each summarize_document activity
    results,         \* child: SummarizeDocOutput of each finished activity
    summaries,       \* child local
    summarized_urls, \* child local
    attempt,         \* child: attempt number of each summarize_document activity
    h_resp,          \* history: the model's answer to each activity's call
    h_open,          \* history: batch child workflows started and not returned
    h_flush_log,     \* history: batch_start of every completed save_checkpoint
    h_batches,       \* history: <<batch_start, batch_end>> of every load_batch
    h_succeeded,     \* history: URLs summarized in this execution's batches
    h_hits,          \* history: URLs returned from the checkpoint, no model call
    h_restart,       \* history: continue-as-new: [count, n]
    h_rerun,         \* history: crash and re-run: [count, k, log, files]
    h_invoked,       \* history: URLs the model was invoked for since the re-run
    client,          \* the CLI process: [state, via, result, args, exit]
    other_run        \* another top-level run in the namespace: [open]

vars ==
    << site, client, other_run, input, manifest_file, log_file, files, output_file, pc, total_docs,
       batch_start, batch_end, batch_data, all_summaries, tasks, results,
       summaries, summarized_urls, attempt, h_resp, h_open, h_flush_log, h_batches, h_succeeded,
       h_hits, h_restart, h_rerun, h_invoked >>

disk == << manifest_file, log_file, files, output_file >>
parent == << total_docs, batch_start, batch_end, batch_data, all_summaries >>
child == << tasks, results, summaries, summarized_urls, attempt, h_resp >>

\* The exit status of a CLI process that has not exited.
NotExited == -1

\* The command line of a CLI process whose main has run: not looked at again.
NoArgs ==
    [workflow_id |-> FALSE, orchestrator |-> "temporal", urls |-> FALSE,
     existing_llms_file |-> FALSE, update_descriptions_only |-> FALSE,
     blacklist_file |-> <<>>]

\* client.py:117-122: the CLI has started the workflow and awaits its result
\* in client.execute_workflow.
Waiting ==
    [state |-> "waiting", via |-> "execute_workflow", result |-> <<>>,
     args |-> NoArgs, exit |-> NotExited]

\* No answer received (yet).
NoResponse == Response("none", <<>>, <<>>)

EmptyMap == [u \in {} |-> <<>>]

\* CrawlAndSummarizeInput.max_depth default (workflows.py:40)
DEFAULT_MAX_DEPTH == 5

\* Number of root URLs of a crawl (the first documents of the site).
NumRoots == 1

\* A page of the site that the existing llms.txt does not list (it is
\* reached from a root URL given next to the file).
Unlisted == { <<"d">> }

\* The prior artifact of an update: a heading and one line per listed URL
\* (client.py:61-77, parse_existing_llms_file).
PriorArtifact(urls) ==
    LET listed == SelectSeq(urls, LAMBDA u : u \notin Unlisted)
    IN << Text("line", <<>>, "old", <<>>) >> \o
       [i \in 1..Len(listed) |-> Text("line", listed[i], "old", <<>>)]

\* The blacklists of the model, as client.py:55-59 builds them: every
\* entry has its trailing slashes stripped.
Blacklists == { {}, {Rstrip(<<"a", "/">>)} }

\* No two URLs of these sites give the same record file name.
Sites ==
    UNION { { SubSeq(o, 1, n) : n \in 0..Min(MaxDocs, Len(o)) } : o \in ManifestOrders }

\* No two documents of the site have the same normalized URL: what a crawl
\* yields, since the crawler keeps one document per normalized URL.
NormalizedDistinct(s) ==
    \A i, j \in 1..Len(s) : Rstrip(s[i]) = Rstrip(s[j]) => i = j

\* client.py:98-114: the input of a new top-level run.
Inputs(s) ==
    { [max_depth |-> DEFAULT_MAX_DEPTH,
       output_format |-> f,
       existing_llms_file |-> m # "crawl",
       update_descriptions_only |-> m = "update_descriptions_only",
       max_concurrent_summaries |-> c,
       blacklisted_urls |-> b,
       file_structure |-> IF m = "update_descriptions_only"
                          THEN PriorArtifact(s) ELSE <<>>] :
      f \in {"txt", "jsonl"},
      m \in {"crawl", "update", "update_descriptions_only"},
      c \in 1..MaxConcurrent,
      b \in Blacklists }

\* No other top-level run has a batch child workflow open.
NoOtherRun == [open |-> {}]

\* An empty project directory, a workflow that has taken no step, and no
\* other run in the namespace.
NotStarted ==
    /\ other_run = NoOtherRun
    /\ manifest_file = <<>>
    /\ log_file = [exists |-> FALSE, complete |-> TRUE, map |-> EmptyMap]
    /\ files = EmptyMap
    /\ output_file = [exists |-> FALSE, lines |-> <<>>]
    /\ total_docs = 0
    /\ batch_start = 0
    /\ batch_end = 0
    /\ batch_data = <<>>
    /\ all_summaries = <<>>
    /\ tasks = <<>>
    /\ results = <<>>
    /\ summaries = <<>>
    /\ summarized_urls = EmptyMap
    /\ attempt = <<>>
    /\ h_resp = <<>>
    /\ h_open = {}
    /\ h_flush_log = <<>>
    /\ h_batches = <<>>
    /\ h_succeeded = {}
    /\ h_hits = {}
    /\ h_restart = [count |-> 0, n |-> 0]
    /\ h_rerun = [count |-> 0, k |-> 0, log |-> EmptyMap, files |-> {}]
    /\ h_invoked = {}

\* The state in which a top-level run of one of the given sites starts.
InitOn(sites) ==
    /\ site \in sites
    /\ input \in Inputs(site)
    /\ NormalizedDistinct(site) \/ input.existing_llms_file
    /\ pc = "discover"
    /\ client = Waiting
    /\ NotStarted

Init == InitOn(Sites)

(***************************************************************************)
(* Activities and workflow steps                                           *)
(***************************************************************************)

\* load_urls (loader.py): with an existing llms.txt the documents are the
\* URLs it lists and the pages given next to it, whatever the depth; a crawl
\* of depth 0 yields the roots only.
LoadUrls(inp, s) ==
    IF inp.existing_llms_file THEN s
    ELSE IF inp.max_depth = 0 THEN SubSeq(s, 1, Min(NumRoots, Len(s)))
    ELSE s

\* Variant of DiscoverUrls: the activity returns the number of documents
\* before the manifest is written.
DiscoverUrls_ReturnsEarly ==
    /\ pc = "discover"
    /\ manifest_file' = <<>>
    /\ total_docs' = Len(LoadUrls(input, site))
    /\ batch_start' = 0
    /\ all_summaries' = <<>>
    /\ pc' = "loop"
    /\ UNCHANGED << site, other_run, client, input, log_file, files, output_file, batch_end,
                    batch_data, child, h_open, h_flush_log, h_batches,
                    h_succeeded, h_hits, h_restart, h_rerun, h_invoked >>

\* workflows.py:191-210 and activities.py:124-173: discover_urls writes the
\* manifest and returns its length; the parent's locals start empty.
DiscoverUrls ==
    /\ pc = "discover"
    /\ manifest_file' = LoadUrls(input, site)
    /\ total_docs' = Len(LoadUrls(input, site))
    /\ batch_start' = 0
    /\ all_summaries' = <<>>
    /\ pc' = "loop"
    /\ UNCHANGED << site, other_run, client, input, log_file, files, output_file, batch_end,
                    batch_data, child, h_open, h_flush_log, h_batches,
                    h_succeeded, h_hits, h_restart, h_rerun, h_invoked >>

\* workflows.py:191-206: every attempt of discover_urls fails (the crawl
\* raises or exceeds start_to_close_timeout); after the last attempt
\* execute_activity raises and the workflow fails.  The manifest is written
\* at the end of the activity (activities.py:164-166): an attempt that
\* failed may or may not have written it.
DiscoverUrlsFailed ==
    /\ pc = "discover"
    /\ manifest_file' \in {manifest_file, LoadUrls(input, site)}
    /\ pc' = "discover_failed"
    /\ UNCHANGED << site, other_run, client, input, log_file, files, output_file, parent,
                    child, h_open, h_flush_log, h_batches, h_succeeded, h_hits,
                    h_restart, h_rerun, h_invoked >>

\* Variant of BatchEnd: the last batch is not cut at the manifest's end.
BatchEnd_NoMin(start, total) == start + BATCH_SIZE

\* workflows.py:219
BatchEnd(start, total) == Min(start + BATCH_SIZE, total)

\* Python's manifest[a:b] for 0 <= a
PySlice(s, a, b) == SubSeq(s, Min(a, Len(s)) + 1, Min(b, Len(s)))

\* Variant of LoadBatchUrls: the slice runs to the end of the manifest.
LoadBatchUrls_ToEnd(manifest, start, end) == PySlice(manifest, start, Len(manifest))

\* activities.py:184-193
LoadBatchUrls(manifest, start, end) == PySlice(manifest, start, end)

\* workflows.py:218-244: one turn of the for loop up to the child workflow.
LoadBatch ==
    /\ pc = "loop"
    /\ batch_start < total_docs
    /\ batch_end' = BatchEnd(batch_start, total_docs)
    /\ batch_data' = LoadBatchUrls(manifest_file, batch_start,
                                   BatchEnd(batch_start, total_docs))
    /\ h_batches' = Append(h_batches,
                           <<batch_start, BatchEnd(batch_start, total_docs)>>)
    /\ pc' = "child_start"
    /\ UNCHANGED << site, other_run, client, input, disk, total_docs, batch_start, all_summaries,
                    child, h_open, h_flush_log, h_succeeded, h_hits, h_restart,
                    h_rerun, h_invoked >>

\* workflows.py:249: id=f"batch-{batch_start}-{batch_end}"
ChildWorkflowId(start, end) == <<"batch", start, end>>

\* workflows.py:246-250 and 104-142: the server starts the child workflow, no
\* open workflow of the namespace having its id; the child creates one
\* summarize_document activity per document and gathers them: all are
\* scheduled at once.
BatchProcessStart ==
    /\ pc = "child_start"
    /\ ChildWorkflowId(batch_start, batch_end) \notin other_run.open
    /\ tasks' = [i \in 1..Len(batch_data) |-> "scheduled"]
    /\ results' = [i \in 1..Len(batch_data) |-> NoOutput]
    /\ summaries' = <<>>
    /\ summarized_urls' = EmptyMap
    /\ attempt' = [i \in 1..Len(batch_data) |-> 1]
    /\ h_resp' = [i \in 1..Len(batch_data) |-> NoResponse]
    /\ h_open' = h_open \cup {batch_start}
    /\ pc' = "gather"
    /\ UNCHANGED << site, other_run, client, input, disk, parent, h_flush_log, h_batches,
                    h_succeeded, h_hits, h_restart, h_rerun, h_invoked >>

\* Variant of IsBlacklisted: the URL is compared as written.
IsBlacklisted_Exact(url, blacklisted_urls) == url \in blacklisted_urls

\* activities.py:237-240
IsBlacklisted(url, blacklisted_urls) == Rstrip(url) \in blacklisted_urls

\* Variant of CheckpointHit: the checkpoint is looked up by normalized URL.
CheckpointHit_Normalized(fmt, log, fls, url) ==
    /\ fmt = "txt"
    /\ log.exists
    /\ Rstrip(url) \in DOMAIN log.map
    /\ log.map[Rstrip(url)] \in DOMAIN fls

\* activities.py:247-252: the checkpoint names the URL and the file it names
\* exists; looked up for the txt format only.
CheckpointHit(fmt, log, fls, url) ==
    /\ fmt = "txt"
    /\ log.exists
    /\ url \in DOMAIN log.map
    /\ log.map[url] \in DOMAIN fls

\* Variant of SummarizeBegin: a checkpoint entry whose result file is missing
\* fails the document.
SummarizeBegin_StaleFails(i) ==
    /\ pc = "gather"
    /\ i \in DOMAIN tasks
    /\ tasks[i] = "scheduled"
    /\ LET url == batch_data[i] IN
         IF IsBlacklisted(url, input.blacklisted_urls)
         THEN /\ tasks' = [tasks EXCEPT ![i] = "done"]
              /\ results' = [results EXCEPT ![i] =
                     SummarizeDocOutput(url, NoText, <<>>, TRUE, "")]
              /\ UNCHANGED << h_hits, h_invoked >>
         ELSE IF CheckpointHit(input.output_format, log_file, files, url)
         THEN /\ tasks' = [tasks EXCEPT ![i] = "done"]
              /\ results' = [results EXCEPT ![i] =
                     SummarizeDocOutput(url, files[log_file.map[url]],
                                        log_file.map[url], FALSE, "")]
              /\ h_hits' = h_hits \cup {url}
              /\ UNCHANGED h_invoked
         ELSE IF input.output_format = "txt" /\ log_file.exists
                 /\ url \in DOMAIN log_file.map
         THEN /\ tasks' = [tasks EXCEPT ![i] = "done"]
              /\ results' = [results EXCEPT ![i] =
                     SummarizeDocOutput(url, NoText, <<>>, FALSE, "missing")]
              /\ UNCHANGED << h_hits, h_invoked >>
         ELSE /\ tasks' = [tasks EXCEPT ![i] = "llm"]
              /\ h_invoked' = IF h_rerun.count > 0
                              THEN h_invoked \cup {url} ELSE h_invoked
              /\ UNCHANGED << results, h_hits >>
    /\ UNCHANGED << site, other_run, client, input, disk, pc, parent, summaries, summarized_urls,
                    attempt, h_resp, h_open, h_flush_log, h_batches,
                    h_succeeded, h_restart, h_rerun >>

\* activities.py:236-260: summarize_document up to the model call.
SummarizeBegin(i) ==
    /\ pc = "gather"
    /\ i \in DOMAIN tasks
    /\ tasks[i] = "scheduled"
    /\ LET url == batch_data[i] IN
         IF IsBlacklisted(url, input.blacklisted_urls)
         THEN /\ tasks' = [tasks EXCEPT ![i] = "done"]
              /\ results' = [results EXCEPT ![i] =
                     SummarizeDocOutput(url, NoText, <<>>, TRUE, "")]
              /\ UNCHANGED << h_hits, h_invoked >>
         ELSE IF CheckpointHit(input.output_format, log_file, files, url)
         THEN /\ tasks' = [tasks EXCEPT ![i] = "done"]
              /\ results' = [results EXCEPT ![i] =
                     SummarizeDocOutput(url, files[log_file.map[url]],
                                        log_file.map[url], FALSE, "")]
              /\ h_hits' = h_hits \cup {url}
              /\ UNCHANGED h_invoked
         ELSE /\ tasks' = [tasks EXCEPT ![i] = "llm"]
              /\ h_invoked' = IF h_rerun.count > 0
                              THEN h_invoked \cup {url} ELSE h_invoked
              /\ UNCHANGED << results, h_hits >>
    /\ UNCHANGED << site, other_run, client, input, disk, pc, parent, summaries, summarized_urls,
                    attempt, h_resp, h_open, h_flush_log, h_batches,
                    h_succeeded, h_restart, h_rerun >>

\* Variant of JsonlEntry: the fallback keeps the content as it came.
JsonlEntry_RawText(url, resp) ==
    IF JsonLoadsOk(resp)
    THEN Text("jsonl", url, resp.text, resp.keywords)
    ELSE Text("jsonl", url, ResponseText(resp), <<>>)

\* activities.py:303-330: the record of the jsonl format.
JsonlEntry(url, resp) ==
    IF JsonLoadsOk(resp)
    THEN Text("jsonl", url, resp.text, resp.keywords)
    ELSE Text("jsonl", url, CleanSummary(resp), <<>>)

\* activities.py:333-334: the record of the txt format.
FormattedSummary(url, resp) == Text("txt", url, CleanSummary(resp), <<>>)

\* activities.py:262-344: the model answers; the record is written and
\* returned, or the error is returned: the error of the model call, or the
\* exception raised on the way, both caught by "except Exception".
SummarizeEnd(i, resp) ==
    /\ pc = "gather"
    /\ i \in DOMAIN tasks
    /\ tasks[i] = "llm"
    /\ LET url == batch_data[i]
           filename == Filename(url)
       IN
         IF resp.kind = "error"
            \/ (input.output_format = "jsonl" /\ GetRaises(resp))
         THEN /\ results' = [results EXCEPT ![i] =
                     SummarizeDocOutput(url, NoText, <<>>, FALSE, "error")]
              /\ UNCHANGED files
         ELSE IF input.output_format = "jsonl"
         THEN /\ files' = [f \in DOMAIN files \cup {filename} |->
                     IF f = filename THEN JsonlEntry(url, resp) ELSE files[f]]
              /\ results' = [results EXCEPT ![i] =
                     SummarizeDocOutput(url,
                         Text("str", <<>>, JsonlEntry(url, resp).summary, <<>>),
                         filename, FALSE, "")]
         ELSE /\ files' = [f \in DOMAIN files \cup {filename} |->
                     IF f = filename THEN FormattedSummary(url, resp)
                     ELSE files[f]]
              /\ results' = [results EXCEPT ![i] =
                     SummarizeDocOutput(url, FormattedSummary(url, resp),
                                        filename, FALSE, "")]
    /\ tasks' = [tasks EXCEPT ![i] = "done"]
    /\ h_resp' = [h_resp EXCEPT ![i] = resp]
    /\ UNCHANGED << site, other_run, client, input, manifest_file, log_file, output_file, pc,
                    parent, summaries, summarized_urls, attempt, h_open, h_flush_log,
                    h_batches, h_succeeded, h_hits, h_restart, h_rerun,
                    h_invoked >>

\* RetryPolicy.maximum_attempts of summarize_document (workflows.py:133)
MaximumAttempts == 3

\* workflows.py:126-136 and 142: an attempt of summarize_document that does
\* not return within start_to_close_timeout is failed by the server.  While
\* attempts remain the activity is scheduled again and runs from its start;
\* after the last attempt execute_activity raises, asyncio.gather passes the
\* exception on, BatchProcessWorkflow.run ends without save_checkpoint and
\* the parent's execute_child_workflow (workflows.py:246) raises in turn:
\* the run has failed.
ActivityTimeout(i) ==
    /\ pc = "gather"
    /\ i \in DOMAIN tasks
    /\ tasks[i] = "llm"
    /\ IF attempt[i] < MaximumAttempts
       THEN /\ tasks' = [tasks EXCEPT ![i] = "scheduled"]
            /\ attempt' = [attempt EXCEPT ![i] = attempt[i] + 1]
            /\ pc' = pc
       ELSE /\ pc' = "failed"
            /\ UNCHANGED << tasks, attempt >>
    /\ UNCHANGED << site, other_run, client, input, disk, parent, results, summaries,
                    summarized_urls, h_resp, h_open, h_flush_log, h_batches,
                    h_succeeded, h_hits, h_restart, h_rerun, h_invoked >>

\* Variant of GatherDone: return when the first activity completes.
GatherDone_FirstCompleted(t) == \E i \in DOMAIN t : t[i] = "done"

\* asyncio.gather returns (workflows.py:142)
GatherDone(t) == \A i \in DOMAIN t : t[i] = "done"

\* Variant of IsSummarized: every result that is not skipped counts.
IsSummarized_NotSkipped(r) == ~r.skipped

\* workflows.py:145: the result counts as summarized
IsSummarized(r) == TruthyText(r.summary) /\ TruthyStr(r.filename)

RECURSIVE CollectSummaries(_)
\* workflows.py:144-146
CollectSummaries(rs) ==
    IF rs = <<>> THEN <<>>
    ELSE IF IsSummarized(Head(rs))
    THEN <<Head(rs).summary>> \o CollectSummaries(Tail(rs))
    ELSE CollectSummaries(Tail(rs))

\* workflows.py:144-147: summarized_urls[result.url] = result.filename; a
\* later result for the same URL overwrites an earlier one.
CollectSummarizedUrls(rs) ==
    LET ok == {i \in DOMAIN rs : IsSummarized(rs[i])}
        last(u) == CHOOSE i \in ok : rs[i].url = u /\ \A j \in ok : rs[j].url = u => j <= i
    IN [u \in {rs[i].url : i \in ok} |-> rs[last(u)].filename]

\* Variant of BatchCollect: a failed document keeps the batch from being
\* collected.
BatchCollect_AllSucceeded ==
    /\ pc = "gather"
    /\ GatherDone(tasks)
    /\ \A i \in DOMAIN results : ~TruthyStr(results[i].error)
    /\ summaries' = CollectSummaries(results)
    /\ summarized_urls' = CollectSummarizedUrls(results)
    /\ h_succeeded' = h_succeeded \cup DOMAIN CollectSummarizedUrls(results)
    /\ pc' = "saving"
    /\ UNCHANGED << site, other_run, client, input, disk, parent, tasks, results, attempt, h_resp,
                    h_open, h_flush_log, h_batches, h_hits, h_restart, h_rerun,
                    h_invoked >>

\* workflows.py:142-160: gather has returned; the results are sorted out and
\* save_checkpoint is scheduled.
BatchCollect ==
    /\ pc = "gather"
    /\ GatherDone(tasks)
    /\ summaries' = CollectSummaries(results)
    /\ summarized_urls' = CollectSummarizedUrls(results)
    /\ h_succeeded' = h_succeeded \cup DOMAIN CollectSummarizedUrls(results)
    /\ pc' = "saving"
    /\ UNCHANGED << site, other_run, client, input, disk, parent, tasks, results, attempt, h_resp,
                    h_open, h_flush_log, h_batches, h_hits, h_restart, h_rerun,
                    h_invoked >>

\* activities.py:354-355: open(log_file, "w") and json.dump of the input: the
\* file holds the mapping it is given.
CheckpointContent(old, new) == new

\* activities.py:347-357
SaveCheckpoint ==
    /\ pc = "saving"
    /\ log_file' = [exists |-> TRUE, complete |-> TRUE,
                    map |-> CheckpointContent(log_file.map, summarized_urls)]
    /\ h_flush_log' = Append(h_flush_log, batch_start)
    /\ pc' = "child_done"
    /\ UNCHANGED << site, other_run, client, input, manifest_file, files, output_file, parent,
                    child, h_open, h_batches, h_succeeded, h_hits, h_restart,
                    h_rerun, h_invoked >>

\* Variant of SaveCheckpointOpen: the checkpoint is opened for writing while
\* the summarizations of the batch are still running.
SaveCheckpointOpen_Early ==
    /\ pc \in {"gather", "saving"}
    /\ log_file' = [exists |-> TRUE, complete |-> FALSE, map |-> EmptyMap]
    /\ pc' = "saving_write"
    /\ UNCHANGED << site, other_run, client, input, manifest_file, files, output_file, parent,
                    child, h_open, h_flush_log, h_batches, h_succeeded, h_hits,
                    h_restart, h_rerun, h_invoked >>

\* activities.py:354: open(log_file, "w") creates or truncates the file; until
\* json.dump has written the mapping the file is not a JSON document.
SaveCheckpointOpen ==
    /\ pc = "saving"
    /\ log_file' = [exists |-> TRUE, complete |-> FALSE, map |-> EmptyMap]
    /\ pc' = "saving_write"
    /\ UNCHANGED << site, other_run, client, input, manifest_file, files, output_file, parent,
                    child, h_open, h_flush_log, h_batches, h_succeeded, h_hits,
                    h_restart, h_rerun, h_invoked >>

\* activities.py:355-357: json.dump writes the mapping and the file is closed.
SaveCheckpointDump ==
    /\ pc = "saving_write"
    /\ log_file' = [exists |-> TRUE, complete |-> TRUE,
                    map |-> CheckpointContent(log_file.map, summarized_urls)]
    /\ h_flush_log' = Append(h_flush_log, batch_start)
    /\ pc' = "child_done"
    /\ UNCHANGED << site, other_run, client, input, manifest_file, files, output_file, parent,
                    child, h_open, h_batches, h_succeeded, h_hits, h_restart,
                    h_rerun, h_invoked >>

\* The worker process is killed between the open and the end of the dump
\* (activities.py:354-355): the file stays as the open left it.
CrashInWrite ==
    /\ pc = "saving_write"
    /\ pc' = "crashed"
    /\ UNCHANGED << site, other_run, client, input, disk, parent, child, h_open, h_flush_log,
                    h_batches, h_succeeded, h_hits, h_restart, h_rerun,
                    h_invoked >>

\* Variant of SafetyValve: the valve fires one batch later.
SafetyValve_Late(end, total) == end < total /\ end > SAFETY_VALVE_DOCS

\* workflows.py:262
SafetyValve(end, total) == end < total /\ end >= SAFETY_VALVE_DOCS

\* Variant of NextBatch: the parent starts the child workflow and goes on
\* to the next batch without awaiting its result.
NextBatch_NoAwait ==
    /\ pc \in {"gather", "saving", "child_done"}
    /\ ~SafetyValve(batch_end, total_docs)
    /\ batch_start' = batch_start + BATCH_SIZE
    /\ pc' = "loop"
    /\ UNCHANGED << site, other_run, client, input, disk, total_docs, batch_end, batch_data,
                    all_summaries, child, h_open, h_flush_log, h_batches,
                    h_succeeded, h_hits, h_restart, h_rerun, h_invoked >>

\* workflows.py:246-258 and the next turn of the loop (workflows.py:218).
NextBatch ==
    /\ pc = "child_done"
    /\ ~SafetyValve(batch_end, total_docs)
    /\ all_summaries' = all_summaries \o summaries
    /\ h_open' = h_open \ {batch_start}
    /\ batch_start' = batch_start + BATCH_SIZE
    /\ pc' = "loop"
    /\ UNCHANGED << site, other_run, client, input, disk, total_docs, batch_end, batch_data,
                    child, h_flush_log, h_batches, h_succeeded, h_hits,
                    h_restart, h_rerun, h_invoked >>

\* workflows.py:264-282: the input of the execution that continues.
RemainingInput(inp) == [inp EXCEPT !.max_depth = 0]

\* workflows.py:260-283: continue_as_new ends this execution and starts
\* CrawlAndSummarizeWorkflow.run again with remaining_input.
ContinueAsNew ==
    /\ pc = "child_done"
    /\ SafetyValve(batch_end, total_docs)
    /\ input' = RemainingInput(input)
    /\ pc' = "discover"
    /\ total_docs' = 0
    /\ batch_start' = 0
    /\ batch_end' = 0
    /\ batch_data' = <<>>
    /\ all_summaries' = <<>>
    /\ tasks' = <<>>
    /\ results' = <<>>
    /\ summaries' = <<>>
    /\ summarized_urls' = EmptyMap
    /\ attempt' = <<>>
    /\ h_resp' = <<>>
    /\ h_open' = h_open \ {batch_start}
    /\ h_flush_log' = <<>>
    /\ h_batches' = <<>>
    /\ h_succeeded' = {}
    /\ h_restart' = [count |-> Min(h_restart.count + 1, MaxRestartCount),
                     n |-> batch_end]
    /\ UNCHANGED << site, other_run, client, disk, h_hits, h_rerun, h_invoked >>

(***************************************************************************)
(* generate_output_file (activities.py:360-510)                            *)
(***************************************************************************)

RECURSIVE SortedNames(_)
SortedNames(S) ==
    IF S = {} THEN <<>>
    ELSE LET m == CHOOSE x \in S : \A y \in S \ {x} : StrLess(x, y)
         IN <<m>> \o SortedNames(S \ {m})

Reverse(s) == [i \in 1..Len(s) |-> s[Len(s) + 1 - i]]

\* os.listdir returns the names in arbitrary order; the model draws the order
\* from ascending and descending by name, so that every two files are seen
\* in both relative orders.
ListDirOrders(S) == {SortedNames(S), Reverse(SortedNames(S))}

\* os.path.basename(input.output_file): llms.txt
OutputBasename == <<"l", "l", "m", "s", ".txt">>

RECURSIVE InsertByKey(_, _)
\* One step of a stable sort of <<key, value>> pairs by key.
InsertByKey(sorted, e) ==
    IF sorted = <<>> THEN <<e>>
    ELSE IF StrLess(e[1], Head(sorted)[1]) THEN <<e>> \o sorted
    ELSE <<Head(sorted)>> \o InsertByKey(Tail(sorted), e)

RECURSIVE SortByKey(_)
\* sorted(entries, key=...) and list.sort(key=...): stable, ascending
SortByKey(es) ==
    IF es = <<>> THEN <<>>
    ELSE InsertByKey(SortByKey(SubSeq(es, 1, Len(es) - 1)), es[Len(es)])

\* activities.py:475-484: the (normalized_url, content) pairs of the files.
SummaryEntries(fls, order, blacklisted_urls) ==
    LET names == SelectSeq(order, LAMBDA f : f # OutputBasename)
        url(f) == IF UrlPatternMatches(fls[f]) THEN UrlPatternGroup2(fls[f]) ELSE f
        pairs == [i \in 1..Len(names) |-> <<Rstrip(url(names[i])), fls[names[i]]>>]
    IN SelectSeq(pairs, LAMBDA e : e[1] \notin blacklisted_urls)

\* activities.py:487-494: per URL, in first-seen order, the longest content;
\* among contents of equal length the first seen (the sort is stable).
UniqueEntriesTxt(es) ==
    LET first == {i \in 1..Len(es) : \A j \in 1..(i - 1) : es[j][1] # es[i][1]}
        same(i) == {j \in 1..Len(es) : es[j][1] = es[i][1]}
        best(i) == CHOOSE j \in same(i) :
                     \A k \in same(i) :
                        \/ ContentLen(es[k][2]) < ContentLen(es[j][2])
                        \/ ContentLen(es[k][2]) = ContentLen(es[j][2]) /\ j <= k
        keep == [i \in 1..Len(es) |-> <<es[i][1], es[best(i)][2]>>]
        idx == SelectSeq([i \in 1..Len(es) |-> i], LAMBDA i : i \in first)
    IN [n \in 1..Len(idx) |-> keep[idx[n]]]

\* activities.py:496-501: an entry whose content was already seen is dropped.
FinalEntries(es) ==
    LET idx == SelectSeq([i \in 1..Len(es) |-> i],
                         LAMBDA i : \A j \in 1..(i - 1) : es[j][2] # es[i][2])
    IN [n \in 1..Len(idx) |-> es[idx[n]]]

\* activities.py:469-507: sorted mode of the txt format.
SortedModeLines(fls, order, blacklisted_urls) ==
    LET sorted == SortByKey(FinalEntries(UniqueEntriesTxt(
                      SummaryEntries(fls, order, blacklisted_urls))))
    IN [i \in 1..Len(sorted) |-> sorted[i][2]]

\* activities.py:378-419: the JSON records of the directory, deduplicated by
\* normalized URL keeping the first seen, blacklisted URLs left out.
UniqueEntriesJsonl(fls, order, blacklisted_urls) ==
    LET names == SelectSeq(order, LAMBDA f : f # OutputBasename /\ fls[f].fmt = "jsonl")
        all_entries == [i \in 1..Len(names) |-> fls[names[i]]]
        ok(i) == /\ Rstrip(all_entries[i].url) \notin blacklisted_urls
                 /\ Rstrip(all_entries[i].url) # <<>>
                 /\ \A j \in 1..(i - 1) :
                       Rstrip(all_entries[j].url) # Rstrip(all_entries[i].url)
        idx == SelectSeq([i \in 1..Len(all_entries) |-> i], LAMBDA i : ok(i))
    IN [n \in 1..Len(idx) |-> all_entries[idx[n]]]

\* activities.py:367-432: the jsonl format.
JsonlLines(fls, order, blacklisted_urls) ==
    LET u == UniqueEntriesJsonl(fls, order, blacklisted_urls)
        sorted == SortByKey([i \in 1..Len(u) |-> <<u[i].url, u[i]>>])
    IN [i \in 1..Len(sorted) |-> sorted[i][2]]

\* Variant of UrlToSummary: only the summaries this run returned are used.
UrlToSummary_RunOnly(sums, fls, order) ==
    LET from_run == {i \in 1..Len(sums) : UrlPatternMatches(sums[i])}
        run_urls == {UrlPatternGroup2(sums[i]) : i \in from_run}
        last(u) == CHOOSE i \in from_run :
                     /\ UrlPatternGroup2(sums[i]) = u
                     /\ \A j \in from_run : UrlPatternGroup2(sums[j]) = u => j <= i
    IN [u \in run_urls |-> StripNewline(sums[last(u)])]

\* Variant of UrlToSummary: a record file is preferred to the summary this
\* run returned.
UrlToSummary_DiskFirst(sums, fls, order) ==
    LET names == SelectSeq(order, LAMBDA f : f # OutputBasename /\ UrlPatternMatches(fls[f]))
        from_run == {i \in 1..Len(sums) : UrlPatternMatches(sums[i])}
        run_urls == {UrlPatternGroup2(sums[i]) : i \in from_run}
        disk_urls == {UrlPatternGroup2(fls[names[i]]) : i \in 1..Len(names)}
        last(u) == CHOOSE i \in from_run :
                     /\ UrlPatternGroup2(sums[i]) = u
                     /\ \A j \in from_run : UrlPatternGroup2(sums[j]) = u => j <= i
        firstf(u) == CHOOSE i \in 1..Len(names) :
                     /\ UrlPatternGroup2(fls[names[i]]) = u
                     /\ \A j \in 1..Len(names) :
                          UrlPatternGroup2(fls[names[j]]) = u => i <= j
    IN [u \in run_urls \cup disk_urls |->
          IF u \in disk_urls THEN StripNewline(fls[names[firstf(u)]])
          ELSE StripNewline(sums[last(u)])]

\* activities.py:439-457: url -> summary, from this run's summaries first
\* (a later one replaces an earlier one), then from the files for the URLs
\* that have none yet (the first file seen).
UrlToSummary(sums, fls, order) ==
    LET names == SelectSeq(order, LAMBDA f : f # OutputBasename /\ UrlPatternMatches(fls[f]))
        from_run == {i \in 1..Len(sums) : UrlPatternMatches(sums[i])}
        run_urls == {UrlPatternGroup2(sums[i]) : i \in from_run}
        disk_urls == {UrlPatternGroup2(fls[names[i]]) : i \in 1..Len(names)}
        last(u) == CHOOSE i \in from_run :
                     /\ UrlPatternGroup2(sums[i]) = u
                     /\ \A j \in from_run : UrlPatternGroup2(sums[j]) = u => j <= i
        firstf(u) == CHOOSE i \in 1..Len(names) :
                     /\ UrlPatternGroup2(fls[names[i]]) = u
                     /\ \A j \in 1..Len(names) :
                          UrlPatternGroup2(fls[names[j]]) = u => i <= j
    IN [u \in run_urls \cup disk_urls |->
          IF u \in run_urls THEN StripNewline(sums[last(u)])
          ELSE StripNewline(fls[names[firstf(u)]])]

\* Variant of StructureLines: the records no line references are appended.
StructureLines_AppendNew(structure, sums, fls, order) ==
    LET m == UrlToSummary(sums, fls, order)
        names == SelectSeq(order, LAMBDA f : f # OutputBasename /\ UrlPatternMatches(fls[f]))
        new == SelectSeq(names, LAMBDA f :
                   \A i \in 1..Len(structure) : structure[i].url # fls[f].url)
    IN [i \in 1..Len(structure) |->
          IF UrlPatternMatches(structure[i])
             /\ UrlPatternGroup2(structure[i]) \in DOMAIN m
          THEN m[UrlPatternGroup2(structure[i])]
          ELSE structure[i]]
       \o [i \in 1..Len(new) |-> StripNewline(fls[new[i]])]

\* activities.py:437-468: structure-preserving mode.
StructureLines(structure, sums, fls, order) ==
    LET m == UrlToSummary(sums, fls, order)
    IN [i \in 1..Len(structure) |->
          IF UrlPatternMatches(structure[i])
             /\ UrlPatternGroup2(structure[i]) \in DOMAIN m
          THEN m[UrlPatternGroup2(structure[i])]
          ELSE structure[i]]

\* activities.py:360-510
GenerateOutput(inp, sums, fls, order) ==
    IF inp.output_format = "jsonl"
    THEN JsonlLines(fls, order, inp.blacklisted_urls)
    ELSE IF inp.file_structure # <<>>
    THEN StructureLines(inp.file_structure, sums, fls, order)
    ELSE SortedModeLines(fls, order, inp.blacklisted_urls)

\* workflows.py:285-301: the loop is over; the artifact is written and the
\* workflow returns its path.
GenerateOutputFile ==
    /\ pc = "loop"
    /\ batch_start >= total_docs
    /\ \E order \in ListDirOrders(DOMAIN files) :
         output_file' = [exists |-> TRUE,
                         lines |-> GenerateOutput(input, all_summaries, files, order)]
    /\ pc' = "done"
    /\ UNCHANGED << site, other_run, client, input, manifest_file, log_file, files, parent, child,
                    h_open, h_flush_log, h_batches, h_succeeded, h_hits,
                    h_restart, h_rerun, h_invoked >>

\* The run is interrupted after a checkpoint flush and the same command is
\* run again (client.py:98-122): a new workflow with the same input on the
\* same project directory.  The blacklist file is read again by the new
\* run (client.py:55-59) and may have been edited in between.
Rerun ==
    /\ h_rerun.count < MaxReruns
    /\ h_restart.count = 0
    /\ pc = "child_done"
    /\ h_rerun' = [count |-> h_rerun.count + 1, k |-> Len(h_flush_log),
                   log |-> log_file.map, files |-> DOMAIN files]
    /\ h_invoked' = {}
    /\ \E b \in Blacklists :
         input' = [input EXCEPT !.max_depth = DEFAULT_MAX_DEPTH,
                                !.blacklisted_urls = b]
    /\ pc' = "discover"
    /\ total_docs' = 0
    /\ batch_start' = 0
    /\ batch_end' = 0
    /\ batch_data' = <<>>
    /\ all_summaries' = <<>>
    /\ tasks' = <<>>
    /\ results' = <<>>
    /\ summaries' = <<>>
    /\ summarized_urls' = EmptyMap
    /\ attempt' = <<>>
    /\ h_resp' = <<>>
    /\ h_open' = {}
    /\ h_flush_log' = <<>>
    /\ h_batches' = <<>>
    /\ h_succeeded' = {}
    /\ h_hits' = {}
    /\ UNCHANGED << site, other_run, client, disk, h_restart >>

Step ==
    \/ DiscoverUrls
    \/ LoadBatch
    \/ BatchProcessStart
    \/ \E i \in 1..BATCH_SIZE : SummarizeBegin(i)
    \/ \E i \in 1..BATCH_SIZE, resp \in Answers(input.output_format) :
          SummarizeEnd(i, resp)
    \/ BatchCollect
    \/ SaveCheckpoint
    \/ NextBatch
    \/ ContinueAsNew
    \/ GenerateOutputFile

Next == Step \/ Rerun

Spec == Init /\ [][Next]_vars

\* Temporal runs every scheduled activity and every workflow task: each step
\* of the run that can be taken is eventually taken.
\* Termination is checked on the runs of one configuration per site and
\* mode: txt format, empty blacklist, max_concurrent_summaries = 1.
FairInit ==
    /\ Init
    /\ input.output_format = "txt"
    /\ input.blacklisted_urls = {}
    /\ input.max_concurrent_summaries = 1

\* workflows.py:285: the loop is over and the aggregator has not run yet.
AwaitingAggregation == pc = "loop" /\ batch_start >= total_docs

\* Weak fairness of every workflow step and activity.  GenerateOutputFile is
\* enabled exactly when AwaitingAggregation holds and ends it, so its weak
\* fairness is []<>~AwaitingAggregation.
FairSpec ==
    /\ FairInit
    /\ [][Step]_vars
    /\ WF_vars(DiscoverUrls)
    /\ WF_vars(LoadBatch)
    /\ WF_vars(BatchProcessStart)
    /\ \A i \in 1..BATCH_SIZE : WF_vars(SummarizeBegin(i))
    /\ \A i \in 1..BATCH_SIZE :
          WF_vars(\E resp \in Answers(input.output_format) : SummarizeEnd(i, resp))
    /\ WF_vars(BatchCollect)
    /\ WF_vars(SaveCheckpoint)
    /\ WF_vars(NextBatch)
    /\ WF_vars(ContinueAsNew)
    /\ []<>(~AwaitingAggregation)

\* Faults.  The runs of small sites (no more documents than the safety
\* valve lets through) with one summarization at a time and no blacklist, in
\* which discovery may fail, the model may answer anything it can answer, an
\* attempt of summarize_document may time out, and the worker may be killed
\* while save_checkpoint writes.
FaultInit ==
    /\ Init
    /\ Len(site) <= BATCH_SIZE + 1
    /\ input.blacklisted_urls = {}
    /\ input.max_concurrent_summaries = 1

FaultNext ==
    \/ DiscoverUrls
    \/ DiscoverUrlsFailed
    \/ LoadBatch
    \/ BatchProcessStart
    \/ \E i \in 1..BATCH_SIZE : SummarizeBegin(i)
    \/ \E i \in 1..BATCH_SIZE, resp \in LlmResponses : SummarizeEnd(i, resp)
    \/ \E i \in 1..BATCH_SIZE : ActivityTimeout(i)
    \/ BatchCollect
    \/ SaveCheckpointOpen
    \/ SaveCheckpointDump
    \/ CrashInWrite
    \/ NextBatch
    \/ GenerateOutputFile

FaultSpec == FaultInit /\ [][FaultNext]_vars

\* Variant of ClientInterrupt: the interrupt cancels the workflow on the
\* server.
ClientInterrupt_Cancels ==
    /\ client.state = "waiting"
    /\ client' = [client EXCEPT !.state = "detached"]
    /\ pc' = "cancelled"
    /\ UNCHANGED << site, other_run, input, disk, parent, child, h_open, h_flush_log,
                    h_batches, h_succeeded, h_hits, h_restart, h_rerun,
                    h_invoked >>

\* cli.py:180-182 and 258-260: Ctrl+C while the CLI awaits the result.
\* asyncio.run cancels the awaiting coroutine, the handler prints a message
\* and the process exits; no cancel or terminate request is sent to the
\* server.
ClientInterrupt ==
    /\ client.state = "waiting"
    /\ client' = [client EXCEPT !.state = "detached",
                                !.exit = IF client.via = "get_workflow_result"
                                         THEN 0 ELSE 1]
    /\ UNCHANGED << site, other_run, input, disk, pc, parent, child, h_open, h_flush_log,
                    h_batches, h_succeeded, h_hits, h_restart, h_rerun,
                    h_invoked >>

\* desc.status.name of the workflow (client.py:150-151).  A worker killed
\* in an activity leaves the workflow running.
WorkflowStatus(p) ==
    IF p = "done" THEN "COMPLETED"
    ELSE IF p \in {"failed", "discover_failed"} THEN "FAILED"
    ELSE IF p = "cancelled" THEN "CANCELED"
    ELSE IF p = "terminated" THEN "TERMINATED"
    ELSE IF p = "timed_out" THEN "TIMED_OUT"
    ELSE "RUNNING"

\* client.py:157
EndedWithoutResult == {"FAILED", "CANCELED", "TERMINATED", "TIMED_OUT"}

\* Variant of GetWorkflowResult: every workflow that has not completed is
\* waited for.
GetWorkflowResult_AlwaysWaits ==
    /\ \/ client.state = "detached"
       \/ /\ client.state = "main"
          /\ client.args.workflow_id
          /\ client.args.orchestrator = "temporal"
    /\ client' =
          IF WorkflowStatus(pc) = "COMPLETED"
          THEN [client EXCEPT !.state = "returned", !.via = "get_workflow_result",
                              !.result = OutputBasename, !.exit = 0]
          ELSE [client EXCEPT !.state = "waiting", !.via = "get_workflow_result",
                              !.result = <<>>, !.exit = NotExited]
    /\ UNCHANGED << site, other_run, input, disk, pc, parent, child, h_open, h_flush_log,
                    h_batches, h_succeeded, h_hits, h_restart, h_rerun,
                    h_invoked >>

\* cli.py:157-186 and client.py:132-167: the CLI is started with
\* --workflow-id and --orchestrator temporal (after an interrupt, or by a new
\* invocation) and calls get_workflow_result: a COMPLETED workflow's result
\* is returned at once; for a workflow that ended without a result
\* RuntimeError is raised and main exits with status 1; otherwise the CLI
\* awaits handle.result().
GetWorkflowResult ==
    /\ \/ client.state = "detached"
       \/ /\ client.state = "main"
          /\ client.args.workflow_id
          /\ client.args.orchestrator = "temporal"
    /\ client' =
          IF WorkflowStatus(pc) = "COMPLETED"
          THEN [client EXCEPT !.state = "returned", !.via = "get_workflow_result",
                              !.result = OutputBasename, !.exit = 0]
          ELSE IF WorkflowStatus(pc) \in EndedWithoutResult
          THEN [client EXCEPT !.state = "runtime_error",
                              !.via = "get_workflow_result",
                              !.result = <<>>, !.exit = 1]
          ELSE [client EXCEPT !.state = "waiting", !.via = "get_workflow_result",
                              !.result = <<>>, !.exit = NotExited]
    /\ UNCHANGED << site, other_run, input, disk, pc, parent, child, h_open, h_flush_log,
                    h_batches, h_succeeded, h_hits, h_restart, h_rerun,
                    h_invoked >>

\* client.py:117-129 and 165-167: the awaited result arrives when the
\* workflow has completed.
ClientReturn ==
    /\ client.state = "waiting"
    /\ pc = "done"
    /\ client' = [client EXCEPT !.state = "returned", !.result = OutputBasename,
                                !.exit = 0]
    /\ UNCHANGED << site, other_run, input, disk, pc, parent, child, h_open, h_flush_log,
                    h_batches, h_succeeded, h_hits, h_restart, h_rerun,
                    h_invoked >>

\* The client.  The runs of FairInit with a CLI that may be interrupted and
\* started again with the workflow id; the server runs every step of the
\* workflow whatever the client does.
ClientNext ==
    \/ Step
    \/ ClientInterrupt
    \/ GetWorkflowResult
    \/ ClientReturn

ClientSpec ==
    /\ FairInit
    /\ [][ClientNext]_vars
    /\ WF_vars(DiscoverUrls)
    /\ WF_vars(LoadBatch)
    /\ WF_vars(BatchProcessStart)
    /\ \A i \in 1..BATCH_SIZE : WF_vars(SummarizeBegin(i))
    /\ \A i \in 1..BATCH_SIZE :
          WF_vars(\E resp \in Answers(input.output_format) : SummarizeEnd(i, resp))
    /\ WF_vars(BatchCollect)
    /\ WF_vars(SaveCheckpoint)
    /\ WF_vars(NextBatch)
    /\ WF_vars(ContinueAsNew)
    /\ []<>(~AwaitingAggregation)

\* A record file is removed from the output directory while the run stands
\* between two batches (by the user or a cleanup job); the checkpoint keeps
\* its entry, which summarize_document then finds without its target
\* (activities.py:250-252).
RemoveRecord(f) ==
    /\ pc = "child_done"
    /\ h_rerun.count = 0
    /\ f \in DOMAIN files
    /\ files' = [g \in DOMAIN files \ {f} |-> files[g]]
    /\ UNCHANGED << site, other_run, client, input, manifest_file, log_file, output_file, pc,
                    parent, child, h_open, h_flush_log, h_batches, h_succeeded,
                    h_hits, h_restart, h_rerun, h_invoked >>

\* Stale checkpoints.  The runs and re-runs of small sites, one
\* summarization at a time, on an output directory from which record files
\* may be removed.
StaleInit ==
    /\ Init
    /\ Len(site) <= BATCH_SIZE + 1
    /\ input.max_concurrent_summaries = 1

StaleNext ==
    \/ DiscoverUrls
    \/ LoadBatch
    \/ BatchProcessStart
    \/ \E i \in 1..BATCH_SIZE : SummarizeBegin(i)
    \/ \E i \in 1..BATCH_SIZE, resp \in Answers(input.output_format) :
          SummarizeEnd(i, resp)
    \/ BatchCollect
    \/ SaveCheckpoint
    \/ NextBatch
    \/ GenerateOutputFile
    \/ Rerun
    \/ \E f \in DOMAIN files : RemoveRecord(f)

StaleSpec == StaleInit /\ [][StaleNext]_vars

\* The text of a record file of the output directory is replaced while the
\* run stands between two batches (the user edits it, or a run of the local
\* pipeline on the same directory writes its own record for the page).
RewriteRecord(f) ==
    /\ pc = "child_done"
    /\ f \in DOMAIN files
    /\ files[f].fmt = "txt"
    /\ files[f].summary # "edited"
    /\ files' = [files EXCEPT ![f] = Text("txt", files[f].url, "edited", <<>>)]
    /\ UNCHANGED << site, other_run, client, input, manifest_file, log_file, output_file, pc,
                    parent, child, h_open, h_flush_log, h_batches, h_succeeded,
                    h_hits, h_restart, h_rerun, h_invoked >>

\* Edited records.  The structure-preserving updates and their re-runs, on
\* small sites and in the txt format, on an output directory whose record
\* files may be rewritten from outside.
EditedInit ==
    /\ Init
    /\ Len(site) <= BATCH_SIZE + 1
    /\ input.max_concurrent_summaries = 1
    /\ input.output_format = "txt"
    /\ input.update_descriptions_only

EditedNext ==
    \/ DiscoverUrls
    \/ LoadBatch
    \/ BatchProcessStart
    \/ \E i \in 1..BATCH_SIZE : SummarizeBegin(i)
    \/ \E i \in 1..BATCH_SIZE, resp \in Answers(input.output_format) :
          SummarizeEnd(i, resp)
    \/ BatchCollect
    \/ SaveCheckpoint
    \/ NextBatch
    \/ GenerateOutputFile
    \/ Rerun
    \/ \E f \in DOMAIN files : RewriteRecord(f)

EditedSpec == EditedInit /\ [][EditedNext]_vars

\* A site with the pages a/b and a_b, whose URLs differ only where one has
\* a slash and the other an underscore.
CollidingSites ==
    { SubSeq(<< <<"a", "/", "b">>, <<"a", "_", "b">> >>, 1, n) : n \in 0..2 }

\* File names.  The runs of the site above: its two documents fall into one
\* batch and are summarized concurrently.
CollisionInit ==
    /\ InitOn(CollidingSites)
    /\ input.blacklisted_urls = {}

CollisionNext ==
    \/ DiscoverUrls
    \/ LoadBatch
    \/ BatchProcessStart
    \/ \E i \in 1..BATCH_SIZE : SummarizeBegin(i)
    \/ \E i \in 1..BATCH_SIZE, resp \in Answers(input.output_format) :
          SummarizeEnd(i, resp)
    \/ BatchCollect
    \/ SaveCheckpoint
    \/ NextBatch
    \/ GenerateOutputFile

CollisionSpec == CollisionInit /\ [][CollisionNext]_vars

\* workflows.py:246-250: the server refuses to start a child workflow under
\* the id of a workflow that is open in the namespace;
\* execute_child_workflow raises and the run fails.
ChildStartRejected ==
    /\ pc = "child_start"
    /\ ChildWorkflowId(batch_start, batch_end) \in other_run.open
    /\ pc' = "failed"
    /\ UNCHANGED << site, other_run, client, input, disk, parent, child, h_open,
                    h_flush_log, h_batches, h_succeeded, h_hits, h_restart,
                    h_rerun, h_invoked >>

\* The ids of the batch child workflows this run has open.
OpenChildIds ==
    IF pc \in {"gather", "saving", "saving_write"}
    THEN {ChildWorkflowId(batch_start, batch_end)} ELSE {}

\* Another invocation of the CLI against the same Temporal namespace (on a
\* project directory of its own) reaches workflows.py:246 for its batch
\* [start, end) and the server starts the child workflow: no child workflow
\* of that id is open.
OtherRunStartsChild(start, end) ==
    /\ other_run.open = {}
    /\ ChildWorkflowId(start, end) \notin OpenChildIds
    /\ other_run' = [open |-> {ChildWorkflowId(start, end)}]
    /\ UNCHANGED << site, client, input, disk, pc, parent, child, h_open,
                    h_flush_log, h_batches, h_succeeded, h_hits, h_restart,
                    h_rerun, h_invoked >>

\* The other run's child workflow returns (workflows.py:162-165).
OtherRunChildReturns ==
    /\ other_run.open # {}
    /\ other_run' = [open |-> {}]
    /\ UNCHANGED << site, client, input, disk, pc, parent, child, h_open,
                    h_flush_log, h_batches, h_succeeded, h_hits, h_restart,
                    h_rerun, h_invoked >>

\* Two runs.  The runs of FairInit next to another top-level run in the same
\* namespace, whose batches are the ranges of a manifest of any length up to
\* two batches.
TwoRunNext ==
    \/ Step
    \/ ChildStartRejected
    \/ \E start \in {0, BATCH_SIZE}, n \in 1..BATCH_SIZE :
          OtherRunStartsChild(start, start + n)
    \/ OtherRunChildReturns

TwoRunSpec == FairInit /\ [][TwoRunNext]_vars

(***************************************************************************)
(* The command line (cli.py:145-263, client.py:19-129)                     *)
(***************************************************************************)

\* The characters str.strip() removes, as far as the files of the model
\* have them.
Whitespace == {" ", "\n"}

RECURSIVE Lstrip(_)
Lstrip(l) == IF l # <<>> /\ Head(l) \in Whitespace THEN Lstrip(Tail(l)) ELSE l

RECURSIVE RstripWs(_)
RstripWs(l) ==
    IF l # <<>> /\ l[Len(l)] \in Whitespace
    THEN RstripWs(SubSeq(l, 1, Len(l) - 1)) ELSE l

\* str.strip()
Strip(l) == RstripWs(Lstrip(l))

\* str.startswith("#")
StartsWithHash(l) == l # <<>> /\ Head(l) = "#"

RECURSIVE KeptEntries(_)
\* client.py:59: [url.rstrip("/") for url in lines
\*                if url and not url.startswith("#")]
KeptEntries(lines) ==
    IF lines = <<>> THEN <<>>
    ELSE IF Head(lines) # <<>> /\ ~StartsWithHash(Head(lines))
    THEN <<Rstrip(Head(lines))>> \o KeptEntries(Tail(lines))
    ELSE KeptEntries(Tail(lines))

\* Variant of ParseBlacklist: the entries keep their trailing slashes.
ParseBlacklist_KeepsSlash(file) ==
    Range(SelectSeq([i \in 1..Len(file) |-> Strip(file[i])],
                    LAMBDA l : l # <<>> /\ ~StartsWithHash(l)))

\* client.py:55-59: the blacklist read from the lines of the file, as
\* f.readlines() gives them; the workflow only tests membership in the list.
ParseBlacklist(file) ==
    Range(KeptEntries([i \in 1..Len(file) |-> Strip(file[i])]))

\* The blacklist files of the model, as lists of lines (no file, or a file
\* that does not exist, reads as no lines): entries with and without
\* trailing slashes, surrounding blanks, comments, an empty line, a comment
\* after blanks, a line that is one slash.
BlacklistFiles ==
    { <<>>,
      << <<"a", "/", "\n">> >>,
      << <<" ", "a", " ", "\n">>, <<"\n">>, <<"#", "b", "\n">> >>,
      << <<"b", "/", "/", "\n">>, <<" ", "#", "a">> >>,
      << <<"/", "\n">>, <<"a", "\n">>, <<"a", "/">> >> }

\* cli.py:19-131: the command lines of the model.  --urls and
\* --existing-llms-file exclude each other (cli.py:22-29); a command line
\* with --workflow-id names no blacklist file.
CliArgs ==
    { a \in [workflow_id : BOOLEAN, orchestrator : {"local", "temporal"},
             urls : BOOLEAN, existing_llms_file : BOOLEAN,
             update_descriptions_only : BOOLEAN,
             blacklist_file : BlacklistFiles] :
        /\ ~(a.urls /\ a.existing_llms_file)
        /\ a.workflow_id => a.blacklist_file = <<>> }

\* Variant of SetupError: --update-descriptions-only is accepted without
\* --existing-llms-file.
SetupError_ModeUnchecked(a) ==
    IF a.workflow_id
    THEN a.orchestrator # "temporal"
    ELSE ~a.urls /\ ~a.existing_llms_file

\* cli.py:157-160 and 188-196: the command lines main refuses.
SetupError(a) ==
    IF a.workflow_id
    THEN a.orchestrator # "temporal"
    ELSE \/ ~a.urls /\ ~a.existing_llms_file
         \/ a.update_descriptions_only /\ ~a.existing_llms_file

\* client.py:98-115: the input run_temporal_workflow builds.  No
\* output_format is passed: the workflow gets the default, "txt"
\* (workflows.py:47).
WorkflowInput(a, s) ==
    [max_depth |-> DEFAULT_MAX_DEPTH,
     output_format |-> "txt",
     existing_llms_file |-> a.existing_llms_file,
     update_descriptions_only |-> a.update_descriptions_only,
     max_concurrent_summaries |-> 1,
     blacklisted_urls |-> ParseBlacklist(a.blacklist_file),
     file_structure |-> IF a.existing_llms_file /\ a.update_descriptions_only
                        THEN PriorArtifact(s) ELSE <<>>]

\* The input of a workflow that does not exist yet.
NoInput == WorkflowInput(NoArgs, <<>>)

\* The sites of the command line runs: at most one batch.
CliSites == {s \in Sites : Len(s) <= BATCH_SIZE}

\* A CLI process at the start of main.  With --workflow-id the command line
\* names a workflow that an earlier invocation started; without it no
\* workflow exists.
CliInit ==
    /\ site \in CliSites
    /\ client \in { [state |-> "main", via |-> "none", result |-> <<>>,
                     args |-> a, exit |-> NotExited] : a \in CliArgs }
    /\ IF client.args.workflow_id
       THEN /\ input \in Inputs(site)
            /\ input.output_format = "txt"
            /\ input.blacklisted_urls = {}
            /\ input.max_concurrent_summaries = 1
            /\ NormalizedDistinct(site) \/ input.existing_llms_file
            /\ pc = "discover"
       ELSE /\ input = NoInput
            /\ NormalizedDistinct(site) \/ client.args.existing_llms_file
            /\ pc = "cli"
    /\ NotStarted

\* cli.py:157-160 and 188-196: main prints the error and exits with status 1.
CliSetupError ==
    /\ client.state = "main"
    /\ SetupError(client.args)
    /\ client' = [client EXCEPT !.state = "setup_error", !.exit = 1]
    /\ UNCHANGED << site, other_run, input, disk, pc, parent, child, h_open, h_flush_log,
                    h_batches, h_succeeded, h_hits, h_restart, h_rerun,
                    h_invoked >>

\* cli.py:207-236 and client.py:53-122: run_temporal_workflow reads the
\* blacklist file, builds the input, starts the workflow and awaits it.
RunTemporalWorkflow ==
    /\ client.state = "main"
    /\ ~client.args.workflow_id
    /\ ~SetupError(client.args)
    /\ client.args.orchestrator = "temporal"
    /\ pc = "cli"
    /\ input' = WorkflowInput(client.args, site)
    /\ pc' = "discover"
    /\ client' = [client EXCEPT !.state = "waiting", !.via = "execute_workflow"]
    /\ UNCHANGED << site, other_run, disk, parent, child, h_open, h_flush_log,
                    h_batches, h_succeeded, h_hits, h_restart, h_rerun,
                    h_invoked >>

\* cli.py:237-257: with the local orchestrator main runs generate_llms_txt,
\* the pipeline in the CLI process; no workflow is started.
GenerateLlmsTxt ==
    /\ client.state = "main"
    /\ ~client.args.workflow_id
    /\ ~SetupError(client.args)
    /\ client.args.orchestrator = "local"
    /\ client' = [client EXCEPT !.state = "local", !.via = "generate_llms_txt"]
    /\ UNCHANGED << site, other_run, input, disk, pc, parent, child, h_open, h_flush_log,
                    h_batches, h_succeeded, h_hits, h_restart, h_rerun,
                    h_invoked >>

\* client.py:117-122 and 165, cli.py:183-185 and 261-263: the awaited
\* workflow ends without a result; the await raises and main exits with
\* status 1.
ClientError ==
    /\ client.state = "waiting"
    /\ WorkflowStatus(pc) \in EndedWithoutResult
    /\ client' = [client EXCEPT !.state = "workflow_failure", !.exit = 1]
    /\ UNCHANGED << site, other_run, input, disk, pc, parent, child, h_open, h_flush_log,
                    h_batches, h_succeeded, h_hits, h_restart, h_rerun,
                    h_invoked >>

\* The server or an operator ends a running workflow: a cancel or terminate
\* request, or a timeout of the execution.
WorkflowEnded(p) ==
    /\ WorkflowStatus(pc) = "RUNNING"
    /\ pc # "cli"
    /\ pc' = p
    /\ UNCHANGED << site, other_run, client, input, disk, parent, child, h_open, h_flush_log,
                    h_batches, h_succeeded, h_hits, h_restart, h_rerun,
                    h_invoked >>

\* The command line.  One invocation of the CLI on a small site, and the
\* workflow it starts or names, which may fail or be ended from outside; the
\* CLI may be interrupted while it waits and started again with the
\* workflow id.
CliNext ==
    \/ CliSetupError
    \/ RunTemporalWorkflow
    \/ GenerateLlmsTxt
    \/ GetWorkflowResult
    \/ ClientInterrupt
    \/ ClientReturn
    \/ ClientError
    \/ \E p \in {"cancelled", "terminated", "timed_out"} : WorkflowEnded(p)
    \/ DiscoverUrls
    \/ DiscoverUrlsFailed
    \/ LoadBatch
    \/ BatchProcessStart
    \/ \E i \in 1..BATCH_SIZE : SummarizeBegin(i)
    \/ \E i \in 1..BATCH_SIZE, resp \in Answers(input.output_format) :
          SummarizeEnd(i, resp)
    \/ BatchCollect
    \/ SaveCheckpoint
    \/ NextBatch
    \/ GenerateOutputFile

CliSpec == CliInit /\ [][CliNext]_vars

(***************************************************************************)
(* Claims                                                                  *)
(***************************************************************************)

\* Position of a URL in the site's discovery order (0 when absent).
IndexOf(s, u) == IF u \in Range(s) THEN CHOOSE i \in 1..Len(s) : s[i] = u ELSE 0

\* The batch (1, 2, ...) a manifest position falls in.
BatchOf(s, u) == ((IndexOf(s, u) - 1) \div BATCH_SIZE) + 1

\* The checkpoint entry of u resolved when the run was interrupted.
ResolvedAtCrash(u) ==
    u \in DOMAIN h_rerun.log /\ h_rerun.log[u] \in h_rerun.files

\* C1: idempotent resume.  After an interruption that follows the checkpoint
\* flush of batch k, the re-run invokes the model only for documents of
\* batches > k and for documents of batch k whose checkpoint entry is missing
\* or stale.  Stated for the txt format, where summarize_document consults
\* the checkpoint, and read in the claim's favour: a document that had no
\* record on disk at the interruption (its summarization failed) may be
\* summarized again whatever its batch.
C1_IdempotentResume ==
    (h_rerun.count > 0 /\ input.output_format = "txt") =>
        \A u \in h_invoked :
            \/ BatchOf(site, u) > h_rerun.k
            \/ BatchOf(site, u) = h_rerun.k /\ ~ResolvedAtCrash(u)
            \/ Filename(u) \notin h_rerun.files

\* C2: once the checkpoint flush of batch k has completed, the checkpoint
\* file holds an entry for every URL summarized in batches 1..k of the run.
C2_CheckpointKeepsEarlierBatches ==
    pc = "child_done" => h_succeeded \subseteq DOMAIN log_file.map

\* An activity of the batch leaves "scheduled" in this step, and when it
\* started the checkpoint named its URL and a result file that exists.
StartsWithEntry(i) ==
    /\ pc = "gather" /\ pc' = "gather"
    /\ i \in DOMAIN tasks /\ i \in DOMAIN tasks'
    /\ tasks[i] = "scheduled" /\ tasks'[i] # "scheduled"
    /\ log_file.exists
    /\ batch_data[i] \in DOMAIN log_file.map
    /\ log_file.map[batch_data[i]] \in DOMAIN files

\* The model is not invoked and, unless the URL is blacklisted, the record
\* the checkpoint names is returned.
ReturnsExisting(i) ==
    /\ tasks'[i] = "done"
    /\ h_invoked' = h_invoked
    /\ files' = files
    /\ Rstrip(batch_data[i]) \notin input.blacklisted_urls =>
         results'[i] = SummarizeDocOutput(batch_data[i],
                           files[log_file.map[batch_data[i]]],
                           log_file.map[batch_data[i]], FALSE, "")

C4_RestartResumesAtN ==
    (h_restart.count > 0 /\ pc \in {"child_start", "gather", "saving", "child_done"})
        => batch_start >= h_restart.n

\* C5: every run whose activities terminate ends: it invokes the aggregator
\* and returns the artifact path.
C5_RunTerminates == <>(pc = "done")

\* The summarize_document activities whose model call is in flight.
InFlight == {i \in DOMAIN tasks : tasks[i] = "llm"}

\* C6: at every moment at most max_concurrent_summaries model calls are in
\* flight.
C6_BoundedModelCalls == Cardinality(InFlight) <= input.max_concurrent_summaries

CeilDiv(n, b) == (n + b - 1) \div b

\* C7: the batches an execution forms are the consecutive slices
\* [0,B), [B,2B), ... of the manifest, the last one cut at N, each of size
\* 1..B; a finished loop has formed ceil(N/B) of them, which then cover
\* 0..N-1 exactly once; and load_batch returns the slice's entries in order.
C7_BatchesPartitionManifest ==
    /\ \A j \in DOMAIN h_batches :
         /\ h_batches[j][1] = (j - 1) * BATCH_SIZE
         /\ h_batches[j][2] = IF j * BATCH_SIZE <= total_docs
                              THEN j * BATCH_SIZE ELSE total_docs
         /\ h_batches[j][1] < h_batches[j][2]
         /\ h_batches[j][2] - h_batches[j][1] <= BATCH_SIZE
    /\ Len(h_batches) <= CeilDiv(total_docs, BATCH_SIZE)
    /\ pc = "done" => Len(h_batches) = CeilDiv(total_docs, BATCH_SIZE)
    /\ pc \in {"child_start", "gather", "saving", "child_done"} =>
         /\ <<batch_start, batch_end>> = h_batches[Len(h_batches)]
         /\ batch_data = [i \in 1..(batch_end - batch_start) |->
                             manifest_file[batch_start + i]]

C7_Witness ==
    /\ pc = "done"
    /\ Len(h_batches) >= 2
    /\ h_batches[Len(h_batches)][2] - h_batches[Len(h_batches)][1] < BATCH_SIZE
    /\ h_batches[Len(h_batches)][2] = total_docs

\* An activity of the current batch is scheduled or running.
BatchActive == \E i \in DOMAIN tasks : tasks[i] \in {"scheduled", "llm"}

\* C8: batches run one at a time in manifest order, each followed by one
\* checkpoint flush: while a batch is summarizing, it is the only open batch
\* and every earlier batch has been flushed, once each and in order.
C8_BatchesSequential ==
    /\ Cardinality(h_open) <= 1
    /\ \A j \in DOMAIN h_flush_log : h_flush_log[j] = (j - 1) * BATCH_SIZE
    /\ BatchActive =>
         /\ h_open = {batch_start}
         /\ Len(h_flush_log) = batch_start \div BATCH_SIZE
         /\ Len(h_batches) = Len(h_flush_log) + 1
    /\ pc = "done" => Len(h_flush_log) = Len(h_batches)

C8_Witness ==
    /\ pc = "gather"
    /\ batch_start = BATCH_SIZE
    /\ InFlight # {}
    /\ h_flush_log = <<0>>

\* C9: save_checkpoint is scheduled only when every document of the batch
\* is in a terminal state: skipped, summarized or failed.
C9_NoPartialBatchCheckpoint ==
    pc = "saving" =>
        /\ Len(tasks) = Len(batch_data)
        /\ \A i \in DOMAIN tasks :
             /\ tasks[i] = "done"
             /\ results[i].url = batch_data[i]
             /\ \/ results[i].skipped
                \/ IsSummarized(results[i])
                \/ TruthyStr(results[i].error)

C9_Witness ==
    /\ pc = "saving"
    /\ \E i, j \in DOMAIN tasks :
         /\ IsSummarized(results[i])
         /\ TruthyStr(results[j].error)

\* C10: no line or record of the artifact references a URL whose
\* trailing-slash-stripped form is in the blacklist.
C10_NoBlacklistedUrlInArtifact ==
    output_file.exists =>
        \A i \in DOMAIN output_file.lines :
            output_file.lines[i].url # <<>> =>
                Rstrip(output_file.lines[i].url) \notin input.blacklisted_urls

\* An activity of the batch leaves "scheduled" in this step for a URL whose
\* trailing-slash-stripped form is in the blacklist.
StartsBlacklisted(i) ==
    /\ pc = "gather" /\ pc' = "gather"
    /\ i \in DOMAIN tasks /\ i \in DOMAIN tasks'
    /\ tasks[i] = "scheduled" /\ tasks'[i] # "scheduled"
    /\ Rstrip(batch_data[i]) \in input.blacklisted_urls

\* C11: a document whose stripped URL is in the blacklist is marked skipped;
\* the model is not invoked for it and the checkpoint is not consulted: the
\* result is the skipped one even when the checkpoint names the URL and its
\* record is on disk.
C11_BlacklistedIsSkipped ==
    [][\A i \in 1..BATCH_SIZE :
          StartsBlacklisted(i) =>
              /\ tasks'[i] = "done"
              /\ results'[i] = SummarizeDocOutput(batch_data[i], NoText, <<>>, TRUE, "")
              /\ h_invoked' = h_invoked
              /\ h_hits' = h_hits
              /\ files' = files]_vars

C11_Witness ==
    /\ pc = "gather"
    /\ input.output_format = "txt"
    /\ \E i \in DOMAIN tasks :
         /\ tasks[i] = "done"
         /\ results[i].skipped
         /\ results[i].url = <<"a", "/">>
         /\ log_file.exists
         /\ results[i].url \in DOMAIN log_file.map
         /\ log_file.map[results[i].url] \in DOMAIN files

\* The artifact of a finished run in fresh mode (no prior structure).
FreshArtifact ==
    pc = "done" /\ output_file.exists /\ input.file_structure = <<>>

\* C12: in fresh mode the artifact holds at most one entry per normalized
\* URL, and no entry is shorter than another record on disk for the same
\* normalized URL: of two records of different lengths the longer is kept.
C12_DedupKeepsLongest ==
    FreshArtifact =>
        /\ \A i, j \in DOMAIN output_file.lines :
              Rstrip(output_file.lines[i].url) = Rstrip(output_file.lines[j].url)
                  => i = j
        /\ \A i \in DOMAIN output_file.lines : \A f \in DOMAIN files :
              Rstrip(files[f].url) = Rstrip(output_file.lines[i].url)
                  => ContentLen(files[f]) <= ContentLen(output_file.lines[i])

\* C13: in fresh mode the entries of the artifact are in strictly ascending
\* order of their URL, URLs being compared with the trailing slash stripped.
C13_SortedByUrl ==
    FreshArtifact =>
        \A i, j \in DOMAIN output_file.lines :
            i < j => StrLess(Rstrip(output_file.lines[i].url),
                             Rstrip(output_file.lines[j].url))

\* The order of C13 taken on the URLs as the entries write them.
SortedByWrittenUrl ==
    FreshArtifact =>
        \A i, j \in DOMAIN output_file.lines :
            i < j => StrLess(output_file.lines[i].url, output_file.lines[j].url)

\* The artifact of a finished run in structure-preserving update mode.
StructureArtifact ==
    /\ pc = "done" /\ output_file.exists
    /\ input.output_format = "txt" /\ input.file_structure # <<>>

\* Line i of the artifact is a record for the URL that line i of the prior
\* artifact references.
IsReplaced(i) ==
    /\ input.file_structure[i].url # <<>>
    /\ output_file.lines[i].fmt = "txtline"
    /\ output_file.lines[i].url = input.file_structure[i].url

\* Line i of the artifact is line i of the prior artifact, byte for byte.
IsUnchanged(i) == output_file.lines[i] = input.file_structure[i]

\* A record for the URL is at hand: returned by a batch of this run, or in a
\* record file of the output directory.
HasRecord(u) ==
    \/ \E i \in DOMAIN all_summaries : all_summaries[i].url = u
    \/ \E f \in DOMAIN files : files[f].url = u

FellBack(i) ==
    /\ input.output_format = "jsonl"
    /\ pc \in {"gather", "saving", "saving_write", "child_done"}
    /\ tasks[i] = "done"
    /\ h_resp[i].kind = "notjson"

\* The document is summarized with the given summary and no keywords, in
\* the result and in the record on disk.
SummarizedAs(i, summary) ==
    /\ results[i] = SummarizeDocOutput(batch_data[i], Text("str", <<>>, summary, <<>>),
                                       Filename(batch_data[i]), FALSE, "")
    /\ Filename(batch_data[i]) \in DOMAIN files
    /\ files[Filename(batch_data[i])] = Text("jsonl", batch_data[i], summary, <<>>)

C17_FailedAfterLastAttempt ==
    \A i \in DOMAIN tasks :
        (tasks[i] = "done" /\ TruthyStr(results[i].error))
            => attempt[i] = MaximumAttempts

\* A document of the current batch has failed.
HasFailure == \E i \in DOMAIN results : TruthyStr(results[i].error)

\* C18: a document whose model call fails is recorded as failed and gets no
\* checkpoint entry, its summarized siblings get theirs, and the run goes on
\* to write the artifact, which holds every document the run summarized.
C18_FailureIsolated ==
    /\ [](pc \in {"saving", "child_done"} =>
            \A i \in DOMAIN results :
               /\ TruthyStr(results[i].error) =>
                     /\ ~IsSummarized(results[i])
                     /\ results[i].url \notin DOMAIN summarized_urls
               /\ IsSummarized(results[i]) =>
                     results[i].url \in DOMAIN summarized_urls)
    /\ [](pc = "child_done" => log_file.map = summarized_urls)
    /\ [](FreshArtifact =>
            \A u \in h_succeeded : \E n \in DOMAIN output_file.lines :
                Rstrip(output_file.lines[n].url) = Rstrip(u))
    /\ (HasFailure /\ total_docs <= SAFETY_VALVE_DOCS)
           ~> (pc = "done" /\ output_file.exists)

C18_Witness ==
    /\ FreshArtifact
    /\ Len(h_flush_log) >= 2
    /\ \E i, j \in DOMAIN results :
         /\ TruthyStr(results[i].error)
         /\ IsSummarized(results[j])
         /\ \E n \in DOMAIN output_file.lines :
               output_file.lines[n].url = results[j].url
         /\ \A n \in DOMAIN output_file.lines :
               output_file.lines[n].url # results[i].url

\* C19: the run does not fail when a summarize_document activity exhausts
\* its attempts: only that document is failed and the batch goes on to its
\* checkpoint flush.
C19_ExhaustionNonFatal == pc # "failed"

\* C20: at every instant the checkpoint file on disk is a complete mapping,
\* never an empty or truncated file.
C20_CheckpointAlwaysComplete == log_file.exists => log_file.complete

\* An activity of the batch leaves "scheduled" in this step for a URL that is
\* not blacklisted and whose checkpoint entry names a result file that does
\* not exist.
StartsStale(i) ==
    /\ pc = "gather" /\ pc' = "gather"
    /\ i \in DOMAIN tasks /\ i \in DOMAIN tasks'
    /\ tasks[i] = "scheduled" /\ tasks'[i] # "scheduled"
    /\ Rstrip(batch_data[i]) \notin input.blacklisted_urls
    /\ log_file.exists
    /\ batch_data[i] \in DOMAIN log_file.map
    /\ log_file.map[batch_data[i]] \notin DOMAIN files

\* The model answers the call of activity i in this step.
ModelAnswers(i) ==
    /\ pc = "gather" /\ pc' = "gather"
    /\ i \in DOMAIN tasks /\ i \in DOMAIN tasks'
    /\ tasks[i] = "llm" /\ tasks'[i] = "done"
    /\ ~TruthyStr(results'[i].error)

\* C21: a checkpoint entry whose result file is missing is treated as
\* absent: the document is neither returned from the checkpoint nor failed,
\* the model is invoked for it, and the model's answer is written to its
\* record file and returned as its summary.
C21_StaleEntryIsReprocessed ==
    /\ [][\A i \in 1..BATCH_SIZE :
            StartsStale(i) =>
                /\ tasks'[i] = "llm"
                /\ results'[i] = NoOutput
                /\ h_hits' = h_hits]_vars
    /\ [][\A i \in 1..BATCH_SIZE :
            ModelAnswers(i) =>
                /\ Filename(batch_data[i]) \in DOMAIN files'
                /\ results'[i].summary = files'[Filename(batch_data[i])]
                       \/ input.output_format = "jsonl"
                /\ IsSummarized(results'[i])]_vars

C21_Witness ==
    /\ input.output_format = "txt"
    /\ h_rerun.count > 0
    /\ pc = "gather"
    /\ \E i \in DOMAIN tasks :
         /\ tasks[i] = "done"
         /\ IsSummarized(results[i])
         /\ results[i].url \in DOMAIN h_rerun.log
         /\ h_rerun.log[results[i].url] \notin h_rerun.files
         /\ results[i].url \in DOMAIN log_file.map
         /\ results[i].url \in h_invoked
         /\ results[i].url \notin h_hits
         /\ Filename(results[i].url) \in DOMAIN files

\* The manifest of the logical run: what discovery found when the run was
\* started (the caller's max_depth is the default one).
RunManifest == LoadUrls([input EXCEPT !.max_depth = DEFAULT_MAX_DEPTH], site)

\* The documents of the logical run whose batch has been flushed: those the
\* executions before the last continue-as-new processed, and those of the
\* flushed batches of the current execution.
FlushedDocs ==
    {RunManifest[k] : k \in 1..Min(h_restart.n, Len(RunManifest))}
        \cup {manifest_file[k] :
                 k \in 1..Min(Len(h_flush_log) * BATCH_SIZE, Len(manifest_file))}

\* C22: the aggregator runs once per logical run, continue-as-new segments
\* included, and only after the checkpoint flush of the run's last batch:
\* the artifact exists only in a finished run, and when it is written every
\* document of the run's manifest belongs to a flushed batch.
C22_AggregatorOnceAfterLastBatch ==
    /\ output_file.exists => pc = "done"
    /\ pc = "done" => Range(RunManifest) \subseteq FlushedDocs

\* The CLI is interrupted in this step.
Interrupted == client.state = "waiting" /\ client'.state = "detached"

\* C23: interrupting the CLI, whether it started the run or reattached to
\* it, leaves the workflow as it is (it is neither cancelled nor
\* terminated); the run goes on to its end while the client is detached; and
\* get_workflow_result on a finished run returns its result.  The progress
\* part is stated for the executions that end (manifests within the safety
\* valve's threshold).
C23_InterruptDetachesOnly ==
    /\ [][Interrupted => /\ pc' = pc
                          /\ UNCHANGED << disk, parent, child >>]_vars
    /\ [](pc # "cancelled")
    /\ (client.state = "detached" /\ pc # "discover"
           /\ total_docs <= SAFETY_VALVE_DOCS) ~> (pc = "done")
    /\ [](client.state = "returned" =>
             /\ pc = "done" /\ output_file.exists
             /\ client.result = OutputBasename)
    /\ [][(client.state = "detached" /\ pc = "done" /\ client' # client)
             => client'.state = "returned"]_vars

C23_Witness ==
    /\ client.state = "returned"
    /\ client.via = "get_workflow_result"
    /\ pc = "done"
    /\ output_file.exists
    /\ Len(h_flush_log) >= 2

\* The execution ends in this step by continue-as-new.
ContinuedAsNew == pc = "child_done" /\ pc' = "discover" /\ h_rerun' = h_rerun

\* The number of batches after which the threshold is reached.
ValveBatches == CeilDiv(SAFETY_VALVE_DOCS, BATCH_SIZE)

\* C24: one workflow execution forms at most threshold / BATCH_SIZE batches
\* and processes at most that many times BATCH_SIZE documents (50 batches,
\* 500 documents in the code); continue-as-new happens at the first batch
\* boundary at which the threshold is reached while a document remains, it
\* always happens there, and it never happens when no document remains.
C24_BoundedExecution ==
    /\ [](Len(h_batches) <= ValveBatches)
    /\ [](batch_end <= ValveBatches * BATCH_SIZE)
    /\ [][ContinuedAsNew =>
             /\ batch_end >= SAFETY_VALVE_DOCS
             /\ batch_end - BATCH_SIZE < SAFETY_VALVE_DOCS
             /\ batch_end < total_docs]_vars
    /\ [][(pc = "child_done" /\ pc' = "loop") =>
             ~(batch_end >= SAFETY_VALVE_DOCS /\ batch_end < total_docs)]_vars

C24_Witness ==
    /\ h_restart.count > 0
    /\ h_restart.n >= SAFETY_VALVE_DOCS
    /\ h_restart.n < Len(RunManifest)
    /\ pc = "discover"

\* The first batch of the logical run has been loaded (in this execution or
\* in one that continued as new).
FirstBatchLoaded == Len(h_batches) > 0 \/ h_restart.count > 0

\* C25: once the first batch of a logical run has been loaded, no step of
\* that run, a safety-valve restart included, writes the manifest again:
\* the manifest file keeps its content.
C25_ManifestReadOnly ==
    [][(FirstBatchLoaded /\ h_rerun' = h_rerun) => manifest_file' = manifest_file]_vars

\* discover_urls has returned to this execution: the manifest is written and
\* its length is known to the workflow.
DiscoveryCompleted ==
    /\ pc \notin {"discover", "discover_failed"}
    /\ manifest_file = LoadUrls(input, site)
    /\ total_docs = Len(manifest_file)

\* A summarize_document activity starts in this step.
SummarizeStarts ==
    \E i \in DOMAIN tasks :
        i \in DOMAIN tasks' /\ tasks[i] = "scheduled" /\ tasks'[i] # "scheduled"

\* C26: load_batch and summarize_document start only after discover_urls
\* has completed, and a run whose discovery has failed for good has
\* attempted no summarization: no batch, no record, no checkpoint, no
\* artifact.
C26_DiscoveryBeforeSummarization ==
    /\ [][Len(h_batches') > Len(h_batches) => DiscoveryCompleted]_vars
    /\ [][SummarizeStarts => DiscoveryCompleted]_vars
    /\ [](pc = "discover_failed" =>
             /\ h_batches = <<>> /\ tasks = <<>> /\ files = EmptyMap
             /\ ~log_file.exists /\ ~output_file.exists)

C26_Witness ==
    /\ pc = "gather"
    /\ \E i \in DOMAIN tasks : tasks[i] = "llm"
    /\ total_docs >= 2
    /\ manifest_file = site

\* C27: every entry a checkpoint flush writes names a result file that
\* exists when the flush is made: the mapping handed to save_checkpoint
\* names existing files only, holds no entry for a skipped or failed
\* document, and is what the file holds after the flush.
C27_CheckpointEntriesResolve ==
    /\ pc \in {"saving", "child_done"} =>
          /\ \A u \in DOMAIN summarized_urls : summarized_urls[u] \in DOMAIN files
          /\ \A i \in DOMAIN results :
                (results[i].skipped \/ TruthyStr(results[i].error))
                    => results[i].url \notin DOMAIN summarized_urls
    /\ pc = "child_done" =>
          /\ log_file.exists
          /\ log_file.map = summarized_urls
          /\ \A u \in DOMAIN log_file.map : log_file.map[u] \in DOMAIN files

C27_Witness ==
    /\ pc = "child_done"
    /\ \E i, j \in DOMAIN results :
         /\ TruthyStr(results[i].error)
         /\ results[i].url \notin DOMAIN log_file.map
         /\ results[j].url \in DOMAIN log_file.map
         /\ log_file.map[results[j].url] = Filename(results[j].url)
         /\ Filename(results[j].url) \in DOMAIN files

\* The activities of the batch have returned.
BatchReturned == pc \in {"saving", "saving_write", "child_done"}

\* C28: every result of a batch is skipped, or carries a summary and a
\* filename, or carries an error, and only one of the three.
C28_EveryResultClassified ==
    BatchReturned =>
        \A i \in DOMAIN results :
            /\ \/ results[i].skipped
               \/ IsSummarized(results[i])
               \/ TruthyStr(results[i].error)
            /\ ~(results[i].skipped /\ IsSummarized(results[i]))
            /\ ~(results[i].skipped /\ TruthyStr(results[i].error))
            /\ ~(IsSummarized(results[i]) /\ TruthyStr(results[i].error))

\* The activity of document i has returned after the model answered its
\* jsonl prompt with something that is not a JSON object.
NotAnObject(i) ==
    /\ input.output_format = "jsonl"
    /\ pc \in {"gather", "saving", "saving_write", "child_done"}
    /\ tasks[i] = "done"
    /\ h_resp[i].kind \in {"notjson", "jsonvalue"}

\* C29: in the jsonl format a response that is not a JSON object, valid
\* JSON of another type included, leaves the document summarized with a
\* plain-text summary, not failed.
C29_MalformedNeverFatal ==
    \A i \in DOMAIN tasks :
        NotAnObject(i) =>
            /\ IsSummarized(results[i])
            /\ ~TruthyStr(results[i].error)

\* C30: in fresh mode the artifact is a function of the record files: two
\* aggregations that list the same directory in different orders write the
\* same artifact.
C30_MergeIndependentOfListing ==
    (AwaitingAggregation /\ input.file_structure = <<>>) =>
        \A o1, o2 \in ListDirOrders(DOMAIN files) :
            GenerateOutput(input, all_summaries, files, o1)
                = GenerateOutput(input, all_summaries, files, o2)

\* C31: when the activities of a batch have returned, the summarized
\* documents of the batch have distinct record files, and each file still
\* holds the record its document's summarization wrote: no other document's
\* record replaced it.
C31_OneFilePerDocument ==
    BatchReturned =>
        \A i \in DOMAIN results :
            IsSummarized(results[i]) =>
                /\ \A j \in DOMAIN results :
                      (IsSummarized(results[j]) /\ results[j].url # results[i].url)
                          => results[j].filename # results[i].filename
                /\ results[i].filename \in DOMAIN files
                /\ files[results[i].filename].url = results[i].url

\* The summarizations of the open batch that have yet to read the checkpoint.
CheckpointReaders == {i \in DOMAIN tasks : tasks[i] = "scheduled"}

\* save_checkpoint has opened the checkpoint file and has not closed it.
CheckpointWriterActive == pc = "saving_write"

\* C32: at most one batch child workflow is open, so at most one
\* save_checkpoint writes; and while save_checkpoint has the checkpoint file
\* open every summarization of the batch has returned: none is running and
\* none has its read of the checkpoint still ahead.
C32_SingleWriter ==
    /\ Cardinality(h_open) <= 1
    /\ CheckpointWriterActive =>
          /\ h_open = {batch_start}
          /\ CheckpointReaders = {}
          /\ \A i \in DOMAIN tasks : tasks[i] = "done"

\* Two summarizations of one batch stand before their reads of the
\* checkpoint at the same time (a state of the re-runs).
C32_ReadersOverlap ==
    /\ pc = "gather"
    /\ Cardinality(CheckpointReaders) = 2
    /\ log_file.exists

\* save_checkpoint of a later batch is writing, after summarizations of its
\* batch read the checkpoint the batch before wrote.
C32_Witness ==
    /\ CheckpointWriterActive
    /\ input.output_format = "txt"
    /\ Len(h_flush_log) >= 1
    /\ Len(tasks) >= 1

\* The summarize_document activities that are scheduled or running.
ActivitiesInFlight == {i \in DOMAIN tasks : tasks[i] \in {"scheduled", "llm"}}

\* C35: at most BATCH_SIZE summarize_document activities are in flight, and
\* all of them belong to the one batch child workflow that is open (or that
\* has just failed on an activity's last attempt).
C35_InFlightBounded ==
    /\ Cardinality(ActivitiesInFlight) <= BATCH_SIZE
    /\ Len(tasks) <= BATCH_SIZE
    /\ ActivitiesInFlight # {} =>
          /\ pc \in {"gather", "failed"}
          /\ h_open = {batch_start}
          /\ Len(tasks) = Len(batch_data)

\* A full batch after the first is in flight, one of its activities already
\* at the model call.
C35_Witness ==
    /\ batch_start > 0
    /\ Cardinality(ActivitiesInFlight) = BATCH_SIZE
    /\ \E i \in DOMAIN tasks : tasks[i] = "llm"

\* The CLI has exited with status 1 from main's checks, or has not got past
\* them yet: it started no workflow and attached to none, and if the command
\* line names no workflow, none exists and nothing was crawled or summarized.
AbortedBeforeWork ==
    /\ client.state \in {"main", "setup_error"}
    /\ client.via = "none"
    /\ client.state = "setup_error" => client.exit = 1
    /\ ~client.args.workflow_id =>
          /\ pc = "cli"
          /\ manifest_file = <<>>
          /\ files = EmptyMap
          /\ h_invoked = {} /\ h_open = {}

\* C33 as stated: --workflow-id with a non-temporal orchestrator, neither
\* --urls nor --existing-llms-file without --workflow-id, or
\* --update-descriptions-only without --existing-llms-file make the CLI
\* exit with status 1 before any workflow is started or reattached.
C33_SetupErrorsAbort_AsStated ==
    LET a == client.args IN
      ( \/ a.workflow_id /\ a.orchestrator # "temporal"
        \/ ~a.workflow_id /\ ~a.urls /\ ~a.existing_llms_file
        \/ a.update_descriptions_only /\ ~a.existing_llms_file )
      => AbortedBeforeWork

\* C33: --workflow-id with a non-temporal orchestrator, or, without
\* --workflow-id, neither --urls nor --existing-llms-file or
\* --update-descriptions-only without --existing-llms-file, make the CLI
\* exit with status 1 before any workflow is started or reattached and
\* before anything is crawled or summarized.
C33_SetupErrorsAbort ==
    LET a == client.args IN
      ( \/ a.workflow_id /\ a.orchestrator # "temporal"
        \/ /\ ~a.workflow_id
           /\ \/ ~a.urls /\ ~a.existing_llms_file
              \/ a.update_descriptions_only /\ ~a.existing_llms_file )
      => AbortedBeforeWork

\* The CLI was given --urls and --update-descriptions-only and has exited
\* with status 1; no workflow exists.
C33_Witness ==
    /\ client.state = "setup_error"
    /\ client.exit = 1
    /\ client.args.urls
    /\ client.args.update_descriptions_only
    /\ ~client.args.workflow_id
    /\ client.args.orchestrator = "temporal"
    /\ pc = "cli"

\* The line without the whitespace before its first and after its last
\* character that is not whitespace.
Trimmed(l) ==
    LET solid == {i \in 1..Len(l) : l[i] \notin Whitespace} IN
      IF solid = {} THEN <<>>
      ELSE SubSeq(l, CHOOSE i \in solid : \A k \in solid : i <= k,
                     CHOOSE i \in solid : \A k \in solid : k <= i)

\* u is e without its trailing slashes.
WithoutTrailingSlashes(u, e) ==
    /\ Len(u) <= Len(e)
    /\ u = SubSeq(e, 1, Len(u))
    /\ \A k \in Len(u) + 1..Len(e) : e[k] = "/"
    /\ u = <<>> \/ u[Len(u)] # "/"

\* The entries of a blacklist file: its trimmed lines that are not empty and
\* do not start with "#".
ListedEntries(file) ==
    { t \in {Trimmed(file[i]) : i \in DOMAIN file} : t # <<>> /\ t[1] # "#" }

\* The CLI has started a workflow from its command line.
StartedFromCommandLine == ~client.args.workflow_id /\ pc # "cli"

\* C34: the blacklist of a run started from the command line holds exactly
\* the entries of the blacklist file without their trailing slashes, and a
\* document of the run is skipped as blacklisted exactly when its URL and an
\* entry of the file are equal up to trailing slashes.
C34_BlacklistParsing ==
    StartedFromCommandLine =>
      LET file == client.args.blacklist_file IN
        /\ \A u \in input.blacklisted_urls :
              \E e \in ListedEntries(file) : WithoutTrailingSlashes(u, e)
        /\ \A e \in ListedEntries(file) :
              \E u \in input.blacklisted_urls : WithoutTrailingSlashes(u, e)
        /\ \A i \in DOMAIN tasks :
              tasks[i] = "done" =>
                ( results[i].skipped <=>
                    \E e \in ListedEntries(file), n \in 0..Len(batch_data[i]) :
                        LET u == SubSeq(batch_data[i], 1, n) IN
                          /\ WithoutTrailingSlashes(u, e)
                          /\ WithoutTrailingSlashes(u, batch_data[i]) )

\* The page a, listed without a trailing slash, is skipped on a blacklist
\* file whose only line is "a/", and the page a/ is skipped with it.
C34_Witness ==
    /\ StartedFromCommandLine
    /\ client.args.blacklist_file = << <<"a", "/", "\n">> >>
    /\ Len(tasks) = 2
    /\ \A i \in DOMAIN tasks : tasks[i] = "done" /\ results[i].skipped
    /\ \E i \in DOMAIN tasks : batch_data[i] = <<"a">>
    /\ \E i \in DOMAIN tasks : batch_data[i] = <<"a", "/">>

\* The CLI is started with --workflow-id and --orchestrator temporal (or
\* again after an interrupt) and this step is its call of
\* get_workflow_result.
Reattaches ==
    /\ \/ client.state = "detached"
       \/ /\ client.state = "main"
          /\ client.args.workflow_id
          /\ client.args.orchestrator = "temporal"
    /\ client' # client

\* C36: get_workflow_result returns the artifact path at once for a
\* COMPLETED workflow; for a FAILED, CANCELED, TERMINATED or TIMED_OUT one it
\* raises without waiting and the CLI exits with status 1; for any other
\* status it waits, and the wait ends only when the workflow has finished
\* (or the user interrupts it).
\* A reattached CLI never holds a result of a workflow that did not complete.
C36_ReattachByStatus ==
    /\ [][Reattaches =>
            /\ client'.via = "get_workflow_result"
            /\ WorkflowStatus(pc) = "COMPLETED" =>
                  /\ client'.state = "returned"
                  /\ client'.result = OutputBasename
            /\ WorkflowStatus(pc) \in EndedWithoutResult =>
                  /\ client'.state = "runtime_error"
                  /\ client'.exit = 1
            /\ WorkflowStatus(pc) = "RUNNING" => client'.state = "waiting"]_vars
    /\ [][(client.state = "waiting" /\ client'.state # "waiting")
            => \/ WorkflowStatus(pc') # "RUNNING"
               \/ client'.state = "detached"]_vars
    /\ [](client.state = "returned" =>
            /\ WorkflowStatus(pc) = "COMPLETED"
            /\ client.result = OutputBasename
            /\ client.exit = 0)
    /\ [](client.state \in {"runtime_error", "workflow_failure"} =>
            /\ WorkflowStatus(pc) \in EndedWithoutResult
            /\ client.exit = 1)

\* The CLI was started with the id of a workflow that an operator had
\* terminated after its first batch was written: get_workflow_result raised
\* and the CLI has exit status 1.
C36_Witness ==
    /\ client.state = "runtime_error"
    /\ client.exit = 1
    /\ client.args.workflow_id
    /\ WorkflowStatus(pc) = "TERMINATED"
    /\ Len(h_flush_log) >= 1

\* C37: a run does not start a batch child workflow under an id that a
\* batch child workflow open in the namespace has: the ids of the child
\* workflows that are open at one time differ, also across two top-level
\* runs and across a continue-as-new restart.
C37_ChildIdsUnique ==
    /\ pc = "child_start" =>
          ChildWorkflowId(batch_start, batch_end) \notin other_run.open
    /\ OpenChildIds \cap other_run.open = {}
    /\ Cardinality(OpenChildIds \cup other_run.open)
          = Cardinality(OpenChildIds) + Cardinality(other_run.open)

\* The summaries the batches of this run returned for the URL.
RunSummariesOf(u) ==
    {i \in DOMAIN all_summaries :
        UrlPatternMatches(all_summaries[i]) /\ all_summaries[i].url = u}

\* The record files of the output directory for the URL.
DiskRecordsOf(u) ==
    {f \in DOMAIN files \ {OutputBasename} :
        UrlPatternMatches(files[f]) /\ files[f].url = u}

\* C38: in the artifact of a structure-preserving update, a line whose URL
\* has a summary from this run is that summary, whatever record is on disk
\* for the URL; a line whose URL has none is a record found on disk, if
\* there is one, and the prior line otherwise.
C38_RunSummaryBeatsDisk ==
    (pc = "done" /\ input.file_structure # <<>>) =>
      /\ Len(output_file.lines) = Len(input.file_structure)
      /\ \A k \in DOMAIN input.file_structure :
            LET line == input.file_structure[k]
                u == line.url
            IN IF ~UrlPatternMatches(line) THEN output_file.lines[k] = line
               ELSE IF RunSummariesOf(u) # {}
               THEN \E i \in RunSummariesOf(u) :
                       output_file.lines[k] = StripNewline(all_summaries[i])
               ELSE IF DiskRecordsOf(u) # {}
               THEN \E f \in DiskRecordsOf(u) :
                       output_file.lines[k] = StripNewline(files[f])
               ELSE output_file.lines[k] = line

\* The artifact has a line with this run's summary for a URL whose record on
\* disk was rewritten and differs from it.
C38_Witness ==
    /\ pc = "done"
    /\ input.file_structure # <<>>
    /\ \E k \in DOMAIN input.file_structure :
          LET u == input.file_structure[k].url IN
            /\ RunSummariesOf(u) # {}
            /\ \E f \in DiskRecordsOf(u) :
                  /\ files[f].summary = "edited"
                  /\ output_file.lines[k] # StripNewline(files[f])
            /\ \E i \in RunSummariesOf(u) :
                  output_file.lines[k] = StripNewline(all_summaries[i])

\* The artifact has a line taken from a record on disk, for a URL that this
\* run returned no summary for.
C38_DiskOnlyWhenNoSummary ==
    /\ pc = "done"
    /\ input.file_structure # <<>>
    /\ \E k \in DOMAIN input.file_structure :
          LET u == input.file_structure[k].url IN
            /\ UrlPatternMatches(input.file_structure[k])
            /\ RunSummariesOf(u) = {}
            /\ \E f \in DiskRecordsOf(u) :
                  output_file.lines[k] = StripNewline(files[f])

=============================================================================
